---- MODULE Spec2Model ----
(***************************************************************************)
(* A model of simba's skill reconciliation engine: the agents' skills     *)
(* directories, the tree hasher, the presence/status matrix, the sync and *)
(* resolve operations, the snapshot store, the symlink primitives and the *)
(* central store commands.                                                *)
(*                                                                         *)
(* The file system is modelled by entries.  An entry is what lives at one *)
(* path: nothing, a real directory (a map from relative file paths to     *)
(* file contents, 0 meaning "no such file"), a regular file, or a symlink.*)
(***************************************************************************)
EXTENDS Naturals, Integers, Sequences, FiniteSets, TLC

VARIABLES
    agentFs,        \* [Agents -> [Skills -> Entry]]: each agent's globalPath directory
    detected,       \* [Agents -> BOOLEAN]: config.agents[id].detected
    maxCount,       \* config.snapshots.maxCount
    autoSnapshot,   \* config.snapshots.autoSnapshot
    snapFs,         \* the snapshots directory: id -> [skills, manifest]
    now,            \* the wall clock, in milliseconds
    linkFs,         \* [LinkPaths -> Entry]: the paths createSymlink is applied to
    storeFs,        \* [Skills -> Entry]: the central store (skillsDir)
    registry,       \* [Skills -> ManagedSkill or NoSkill]: registry.json
    edits,          \* number of changes made from outside the program so far
    ops,            \* number of operations run so far
    snapLog,        \* the createSnapshot calls that returned, oldest first
    tui,            \* the interactive matrix: its in-memory state and the handlers in flight
    last            \* the most recent operation: its arguments, the state before it, its outcome

vars == <<agentFs, detected, maxCount, autoSnapshot, snapFs, now, linkFs,
          storeFs, registry, edits, ops, snapLog, tui, last>>

----------------------------------------------------------------------------
(* Bounds of the model *)

MaxEdits == 2
MaxOps == 1
MaxCmds == 2
MaxSnapOps == 3
MaxMutations == 1
MaxClock == 2
MaxRetention == 2

----------------------------------------------------------------------------
(* The universe: agents, skill names, file paths, file contents *)

Agents == {"claude", "cursor", "codex"}

AgentOrder == <<"claude", "cursor", "codex">>

Skills == {"alpha", "Beta"}

Paths == {"SKILL.md", "ref.md"}

Contents == {1, 2}

FileMaps == [Paths -> {0} \cup Contents]

NoFiles == [p \in Paths |-> 0]

Absent == [kind |-> "none"]

Dir(f) == [kind |-> "dir", files |-> f]

RegFile(c) == [kind |-> "file", content |-> c]

Link(t) == [kind |-> "link", target |-> t]

RealEntries == {Dir(f) : f \in FileMaps} \cup {RegFile(c) : c \in Contents}

\* What a change from outside may put at a path: a skill directory, a directory
\* without the marker file, or a regular file.
EditEntries ==
    {Dir(f) : f \in {g \in FileMaps : g["ref.md"] \in {0, 1} /\ g # NoFiles}} \cup {RegFile(1)}

DetectedConfigs ==
    {[a \in Agents |-> a \in D] : D \in {Agents, {"claude", "cursor"}, {"cursor"}}}

EmptyAgentDir == [s \in Skills |-> Absent]

SeqToSet(q) == {q[i] : i \in 1..Len(q)}

----------------------------------------------------------------------------
(* Sorting of names.  localeCompare orders letters first and case last;   *)
(* byte order puts every upper-case letter before every lower-case one.   *)

LocaleRank(name) ==
    CASE name = "alpha" -> 1
      [] name = "Beta" -> 2
      [] name = "ref.md" -> 1
      [] name = "SKILL.md" -> 2
      [] OTHER -> 3

ByteRank(name) ==
    CASE name = "Beta" -> 1
      [] name = "alpha" -> 2
      [] name = "SKILL.md" -> 1
      [] name = "ref.md" -> 2
      [] OTHER -> 3

SortLocale(S) ==
    [i \in 1..Cardinality(S) |->
        CHOOSE x \in S : Cardinality({y \in S : LocaleRank(y) < LocaleRank(x)}) = i - 1]

----------------------------------------------------------------------------
(* Tree hasher *)

Sha256(x) == <<"sha256", x>>

NullHash == <<"null">>

hashFile(content) == Sha256(content)

collectFiles(files) == {p \in Paths : files[p] # 0}

hashTree(files) ==
    LET sorted == SortLocale(collectFiles(files))
        treeContent == [i \in 1..Len(sorted) |-> <<sorted[i], hashFile(files[sorted[i]])>>]
    IN Sha256(treeContent)

----------------------------------------------------------------------------
(* File-system primitives: cp(src, dest, {recursive: true}) and rm *)

\* What a failing call throws: an Error the method builds itself, with the
\* identifiers its message holds, or the system error of a file-system call,
\* with the code and the path of that call.
NoError == [kind |-> "none"]

UnknownAgentError(ids) == [kind |-> "Error", text |-> "Unknown agent", ids |-> ids]

SystemError(code, path) == [kind |-> "SystemError", code |-> code, path |-> path]

CpOk(src, dest) ==
    \/ src.kind = "dir" /\ dest.kind \in {"none", "dir"}
    \/ src.kind = "file" /\ dest.kind \in {"none", "file"}

Cp(src, dest) ==
    IF src.kind = "dir" /\ dest.kind = "dir"
    THEN Dir([p \in Paths |-> IF src.files[p] # 0 THEN src.files[p] ELSE dest.files[p]])
    ELSE src

----------------------------------------------------------------------------
(* AgentRegistry *)

IsSkillDir(e) == e.kind = "dir" /\ e.files["SKILL.md"] # 0

listSkills(fs, agentId) == {s \in Skills : IsSkillDir(fs[agentId][s])}

copySkillOk(fs, skillName, fromAgent, toAgent) ==
    /\ fromAgent \in Agents
    /\ toAgent \in Agents
    /\ CpOk(fs[fromAgent][skillName], fs[toAgent][skillName])

copySkill(fs, skillName, fromAgent, toAgent) ==
    [fs EXCEPT ![toAgent][skillName] = Cp(fs[fromAgent][skillName], @)]

deleteSkillOk(fs, skillName, agentId) ==
    /\ agentId \in Agents
    /\ fs[agentId][skillName].kind # "none"

deleteSkillKeeps(fs, skillName, agentId) == fs

deleteSkill(fs, skillName, agentId) ==
    [fs EXCEPT ![agentId][skillName] = Absent]

----------------------------------------------------------------------------
(* SkillManager: the matrix *)

DetectedAgents == {a \in Agents : detected[a]}

DetectedOrder == SelectSeq(AgentOrder, LAMBDA a : detected[a])

agentHashesOf(fs, skillName) ==
    LET have == {a \in DetectedAgents : skillName \in listSkills(fs, a)}
    IN [a \in have |-> [present |-> TRUE, hash |-> hashTree(fs[a][skillName].files)]]

computeStatusInverted(agentHashes) ==
    LET presentAgents == {a \in DOMAIN agentHashes : agentHashes[a].present}
        hashes == {agentHashes[a].hash : a \in presentAgents}
    IN IF Cardinality(presentAgents) = 0 THEN "missing"
       ELSE IF Cardinality(presentAgents) = 1 THEN "unique"
       ELSE IF Cardinality(hashes) = 1 THEN "conflict"
       ELSE "synced"

computeStatus(agentHashes) ==
    LET presentAgents == {a \in DOMAIN agentHashes : agentHashes[a].present}
        hashes == {agentHashes[a].hash : a \in presentAgents}
    IN IF Cardinality(presentAgents) = 0 THEN "missing"
       ELSE IF Cardinality(presentAgents) = 1 THEN "unique"
       ELSE IF Cardinality(hashes) = 1 THEN "synced"
       ELSE "conflict"

\* A variant whose rows cover every configured agent, detected or not.
matrixRowAllAgents(fs, skillName) ==
    LET agentHashes == agentHashesOf(fs, skillName)
    IN [skillName |-> skillName,
        agents |-> [a \in Agents |->
                       IF a \in DOMAIN agentHashes THEN agentHashes[a]
                       ELSE [present |-> FALSE, hash |-> NullHash]],
        status |-> computeStatus(agentHashes)]

matrixRow(fs, skillName) ==
    LET agentHashes == agentHashesOf(fs, skillName)
    IN [skillName |-> skillName,
        agents |-> [a \in DetectedAgents |->
                       IF a \in DOMAIN agentHashes THEN agentHashes[a]
                       ELSE [present |-> FALSE, hash |-> NullHash]],
        status |-> computeStatus(agentHashes)]

buildMatrix(fs) ==
    LET seen == {s \in Skills : \E a \in DetectedAgents : s \in listSkills(fs, a)}
        sorted == SortLocale(seen)
    IN [i \in 1..Len(sorted) |-> matrixRow(fs, sorted[i])]

----------------------------------------------------------------------------
(* SkillManager: syncUnique and resolveConflict.  Both walk their targets *)
(* in order and stop at the first call that throws; what was done before  *)
(* the throw stays done.                                                   *)

syncTargets(sourceAgent) ==
    SelectSeq(AgentOrder, LAMBDA id : detected[id] /\ id # sourceAgent)

RECURSIVE copyLoop(_, _, _, _, _)
copyLoop(fs, skillName, sourceAgent, targets, i) ==
    IF i > Len(targets) THEN [fs |-> fs, ok |-> TRUE]
    ELSE IF ~copySkillOk(fs, skillName, sourceAgent, targets[i])
         THEN [fs |-> fs, ok |-> FALSE]
         ELSE copyLoop(copySkill(fs, skillName, sourceAgent, targets[i]),
                       skillName, sourceAgent, targets, i + 1)

syncUnique(fs, skillName, sourceAgent) ==
    LET targetAgents == syncTargets(sourceAgent)
        r == copyLoop(fs, skillName, sourceAgent, targetAgents, 1)
    IN [fs |-> r.fs, ok |-> r.ok, ret |-> targetAgents]

RECURSIVE resolveLoop(_, _, _, _, _)
resolveLoop(fs, skillName, winnerAgent, loserAgents, i) ==
    IF i > Len(loserAgents) THEN [fs |-> fs, ok |-> TRUE]
    ELSE IF ~deleteSkillOk(fs, skillName, loserAgents[i])
         THEN [fs |-> fs, ok |-> FALSE]
         ELSE LET deleted == deleteSkill(fs, skillName, loserAgents[i])
              IN IF ~copySkillOk(deleted, skillName, winnerAgent, loserAgents[i])
                 THEN [fs |-> deleted, ok |-> FALSE]
                 ELSE resolveLoop(copySkill(deleted, skillName, winnerAgent, loserAgents[i]),
                                  skillName, winnerAgent, loserAgents, i + 1)

resolveConflict(fs, skillName, winnerAgent, loserAgents) ==
    resolveLoop(fs, skillName, winnerAgent, loserAgents, 1)

----------------------------------------------------------------------------
(* Operations on the agents' directories *)

NoOp == [op |-> "none"]

\* The interactive matrix is not running.
NoTui == [running |-> FALSE]

\* Somebody (the user, an agent tool) changes an entry of an agent's skills directory.
UserEdit ==
    /\ edits < MaxEdits
    /\ \E a \in Agents, s \in Skills, e \in EditEntries \cup {Absent} :
          /\ e # agentFs[a][s]
          /\ agentFs' = [agentFs EXCEPT ![a][s] = e]
    /\ edits' = edits + 1
    /\ last' = NoOp
    /\ UNCHANGED <<tui, detected, maxCount, autoSnapshot, snapFs, now, linkFs, storeFs,
                   registry, ops, snapLog>>

BuildMatrixOp ==
    /\ ops < MaxOps
    /\ ops' = ops + 1
    /\ last' = [op |-> "buildMatrix", matrix |-> buildMatrix(agentFs)]
    /\ UNCHANGED <<tui, agentFs, detected, maxCount, autoSnapshot, snapFs, now, linkFs,
                   storeFs, registry, edits, snapLog>>

SyncUniqueOp ==
    /\ ops < MaxOps
    /\ ops' = ops + 1
    /\ \E s \in Skills, src \in Agents :
        LET r == syncUnique(agentFs, s, src)
        IN /\ agentFs' = r.fs
           /\ last' = [op |-> "syncUnique", skill |-> s, source |-> src,
                       pre |-> agentFs, ok |-> r.ok, ret |-> r.ret]
    /\ UNCHANGED <<tui, detected, maxCount, autoSnapshot, snapFs, now, linkFs,
                   storeFs, registry, edits, snapLog>>

ResolveConflictOp ==
    /\ ops < MaxOps
    /\ ops' = ops + 1
    /\ \E s \in Skills, w \in Agents :
        \E L \in (SUBSET (Agents \ {w})) \ {{}} :
          LET losers == SelectSeq(AgentOrder, LAMBDA id : id \in L)
              r == resolveConflict(agentFs, s, w, losers)
          IN /\ agentFs' = r.fs
             /\ last' = [op |-> "resolveConflict", skill |-> s, winner |-> w,
                         losers |-> losers, pre |-> agentFs, ok |-> r.ok]
    /\ UNCHANGED <<tui, detected, maxCount, autoSnapshot, snapFs, now, linkFs,
                   storeFs, registry, edits, snapLog>>

InitCommon ==
    /\ agentFs = [a \in Agents |-> EmptyAgentDir]
    /\ detected \in DetectedConfigs
    /\ maxCount = MaxRetention
    /\ autoSnapshot = TRUE
    /\ snapFs = <<>>
    /\ now = 0
    /\ linkFs = <<>>
    /\ storeFs = [s \in Skills |-> Absent]
    /\ registry = <<>>
    /\ edits = 0
    /\ ops = 0
    /\ snapLog = <<>>
    /\ tui = NoTui
    /\ last = NoOp

InitMatrix == InitCommon

NextMatrix ==
    \/ UserEdit
    \/ BuildMatrixOp
    \/ SyncUniqueOp
    \/ ResolveConflictOp

SpecMatrix == InitMatrix /\ [][NextMatrix]_vars

----------------------------------------------------------------------------
(* SnapshotManager.  A timestamp is rendered by toISOString with fixed-     *)
(* width fields down to the millisecond; the model keeps the seconds field *)
(* and the milliseconds field.  A snapshot directory holds the copied      *)
(* skills and, once written, the manifest.                                 *)

MsPerSec == 1000

toISOString(t) == <<t \div MsPerSec, t % MsPerSec>>

getTime(iso) == iso[1] * MsPerSec + iso[2]

generateId(t) == toISOString(t)

NoManifest == [present |-> FALSE]

NewSnapshotDir == [skills |-> [s \in Skills |-> Absent], manifest |-> NoManifest]

basename(path) == path[2]

RECURSIVE backupLoop(_, _, _, _)
backupLoop(skills, fs, skillPaths, i) ==
    IF i > Len(skillPaths) THEN [skills |-> skills, ok |-> TRUE]
    ELSE LET src == fs[skillPaths[i][1]][skillPaths[i][2]]
             skillName == basename(skillPaths[i])
         IN IF ~CpOk(src, skills[skillName])
            THEN [skills |-> skills, ok |-> FALSE]
            ELSE backupLoop([skills EXCEPT ![skillName] = Cp(src, @)], fs, skillPaths, i + 1)

WithManifest(sfs) == {id \in DOMAIN sfs : sfs[id].manifest.present}

\* listSnapshots sorts the manifests by 'created', newest first; manifests with
\* equal 'created' stay in the order readdir returned them, which is arbitrary.
listSnapshots(sfs) ==
    LET ids == WithManifest(sfs)
        n == Cardinality(ids)
    IN {[i \in 1..n |-> sfs[q[i]].manifest] : q \in
          {r \in [1..n -> ids] :
              /\ \A i, j \in 1..n : i # j => r[i] # r[j]
              /\ \A i, j \in 1..n :
                    i < j => getTime(sfs[r[i]].manifest.created) >= getTime(sfs[r[j]].manifest.created)}}

pruneOldSnapshots(sfs, list) ==
    IF Len(list) <= maxCount THEN sfs
    ELSE LET toDelete == {list[i].id : i \in (maxCount + 1)..Len(list)}
         IN [id \in (DOMAIN sfs) \ toDelete |-> sfs[id]]

\* Everything createSnapshot does before pruning: t0 is the clock when the id
\* is generated, t1 the clock when the manifest is written.
writeSnapshot(sfs, fs, skillPaths, reason, t0, t1) ==
    LET id == generateId(t0)
        old == IF id \in DOMAIN sfs THEN sfs[id] ELSE NewSnapshotDir
        r == backupLoop(old.skills, fs, skillPaths, 1)
        manifest == [present |-> TRUE, id |-> id, reason |-> reason,
                     created |-> toISOString(t1),
                     skills |-> [i \in 1..Len(skillPaths) |-> basename(skillPaths[i])]]
        dir == [skills |-> r.skills, manifest |-> IF r.ok THEN manifest ELSE old.manifest]
    IN [id |-> id, ok |-> r.ok,
        sfs |-> [x \in (DOMAIN sfs) \cup {id} |-> IF x = id THEN dir ELSE sfs[x]]]

restoreOk(sfs, snapshotId) ==
    /\ snapshotId \in DOMAIN sfs
    /\ sfs[snapshotId].manifest.present

\* restore reads the manifest first; a missing snapshot directory or
\* manifest makes readFile throw.
restoreError(sfs, snapshotId) ==
    IF restoreOk(sfs, snapshotId) THEN NoError
    ELSE SystemError("ENOENT", <<"snapshots", snapshotId, "manifest.json">>)

\* A variant that copies over the old entry without removing it first.
restoreMerges(sfs, snapshotId, targetDir) ==
    LET names == SeqToSet(sfs[snapshotId].manifest.skills)
    IN [s \in Skills |->
          IF s \in names /\ CpOk(sfs[snapshotId].skills[s], targetDir[s])
          THEN Cp(sfs[snapshotId].skills[s], targetDir[s])
          ELSE targetDir[s]]

restore(sfs, snapshotId, targetDir) ==
    LET names == SeqToSet(sfs[snapshotId].manifest.skills)
    IN [s \in Skills |-> IF s \in names THEN sfs[snapshotId].skills[s] ELSE targetDir[s]]

getLatestSnapshot(list) == IF Len(list) = 0 THEN NoManifest ELSE list[1]

----------------------------------------------------------------------------
(* Operations on the snapshot store *)

SnapPathChoices == {<<"claude", "alpha">>, <<"claude", "Beta">>, <<"cursor", "alpha">>}

\* The argument lists createSnapshot is called with: one directory, two
\* directories with different names, two directories with the same name.
SnapPathSeqs ==
    {<<<<"claude", "alpha">>>>,
     <<<<"claude", "alpha">>, <<"claude", "Beta">>>>,
     <<<<"claude", "alpha">>, <<"cursor", "alpha">>>>}

\* Clock readings of one createSnapshot call: <<d1, d2>> is the time from the
\* id to the manifest and from the manifest to the return, in milliseconds.
Delays == {<<0, 0>>, <<0, 1>>, <<1, 0>>}

SnapEntries == {Absent, Dir([NoFiles EXCEPT !["SKILL.md"] = 1]),
                Dir([NoFiles EXCEPT !["SKILL.md"] = 2]),
                Dir([p \in Paths |-> 1])}

\* A snapshotted directory is changed: files changed, added or deleted, or
\* the directory removed.
MutateDir ==
    /\ edits < MaxMutations
    /\ \E p \in SnapPathChoices, e \in SnapEntries :
          /\ e # agentFs[p[1]][p[2]]
          /\ agentFs' = [agentFs EXCEPT ![p[1]][p[2]] = e]
    /\ edits' = edits + 1
    /\ last' = NoOp
    /\ UNCHANGED <<tui, detected, maxCount, autoSnapshot, snapFs, now, linkFs, storeFs,
                   registry, ops, snapLog>>

CreateSnapshotOp ==
    /\ ops < MaxSnapOps
    /\ ops' = ops + 1
    /\ \E skillPaths \in SnapPathSeqs, d \in Delays :
        LET w == writeSnapshot(snapFs, agentFs, skillPaths, "test", now, now + d[1])
        IN /\ now + d[1] + d[2] <= MaxClock
           /\ now' = now + d[1] + d[2]
           /\ IF w.ok
              THEN /\ \E list \in listSnapshots(w.sfs) : snapFs' = pruneOldSnapshots(w.sfs, list)
                   /\ snapLog' = Append(snapLog,
                          [id |-> w.id, created |-> now + d[1], paths |-> skillPaths,
                           entries |-> [i \in 1..Len(skillPaths) |->
                                           agentFs[skillPaths[i][1]][skillPaths[i][2]]]])
              ELSE /\ snapFs' = w.sfs
                   /\ snapLog' = snapLog
           /\ last' = [op |-> "createSnapshot", id |-> w.id, ok |-> w.ok, paths |-> skillPaths]
    /\ UNCHANGED <<tui, agentFs, detected, maxCount, autoSnapshot, linkFs, storeFs, registry, edits>>

RestoreOp ==
    /\ ops < MaxSnapOps
    /\ ops' = ops + 1
    /\ \E snapshotId \in DOMAIN snapFs \cup {snapLog[i].id : i \in 1..Len(snapLog)},
          target \in {"claude", "cursor"} :
        /\ IF restoreOk(snapFs, snapshotId)
           THEN agentFs' = [agentFs EXCEPT ![target] = restore(snapFs, snapshotId, @)]
           ELSE agentFs' = agentFs
        /\ last' = [op |-> "restore", id |-> snapshotId, target |-> target,
                    pre |-> agentFs, ok |-> restoreOk(snapFs, snapshotId),
                    error |-> restoreError(snapFs, snapshotId)]
    /\ UNCHANGED <<tui, detected, maxCount, autoSnapshot, snapFs, now, linkFs, storeFs,
                   registry, edits, snapLog>>

InitSnap ==
    /\ agentFs = [a \in Agents |-> [s \in Skills |->
                     IF <<a, s>> = <<"claude", "alpha">> THEN Dir([p \in Paths |-> 1])
                     ELSE IF <<a, s>> = <<"claude", "Beta">> THEN Dir([NoFiles EXCEPT !["SKILL.md"] = 1])
                     ELSE IF <<a, s>> = <<"cursor", "alpha">> THEN Dir([NoFiles EXCEPT !["SKILL.md"] = 2])
                     ELSE Absent]]
    /\ detected = [a \in Agents |-> TRUE]
    /\ maxCount \in 0..MaxRetention
    /\ autoSnapshot = TRUE
    /\ snapFs = <<>>
    /\ now = 0
    /\ linkFs = <<>>
    /\ storeFs = [s \in Skills |-> Absent]
    /\ registry = <<>>
    /\ edits = 0
    /\ ops = 0
    /\ snapLog = <<>>
    /\ tui = NoTui
    /\ last = NoOp

NextSnap ==
    \/ MutateDir
    \/ CreateSnapshotOp
    \/ RestoreOp

SpecSnap == InitSnap /\ [][NextSnap]_vars

----------------------------------------------------------------------------
(* The sync and undo commands *)

NoSource == ""

\* What --source may name: nothing, a configured agent, or an unknown id.
SourceArgs == Agents \cup {NoSource, "ghost"}

rowsWithStatus(matrix, status) == SelectSeq(matrix, LAMBDA m : m.status = status)

presentAgents(row) == SelectSeq(DetectedOrder, LAMBDA id : row.agents[id].present)

RECURSIVE syncSkillPaths(_, _)
syncSkillPaths(rows, i) ==
    IF i > Len(rows) THEN <<>>
    ELSE [k \in 1..Len(presentAgents(rows[i])) |->
             <<presentAgents(rows[i])[k], rows[i].skillName>>]
         \o syncSkillPaths(rows, i + 1)

RECURSIVE syncUniqueLoop(_, _, _)
syncUniqueLoop(fs, unique, i) ==
    IF i > Len(unique) THEN [fs |-> fs, ok |-> TRUE]
    ELSE LET source == presentAgents(unique[i])[1]
             r == syncUnique(fs, unique[i].skillName, source)
         IN IF ~r.ok THEN [fs |-> r.fs, ok |-> FALSE]
            ELSE syncUniqueLoop(r.fs, unique, i + 1)

RECURSIVE resolveConflictsLoop(_, _, _, _)
resolveConflictsLoop(fs, conflicts, source, i) ==
    IF i > Len(conflicts) THEN [fs |-> fs, ok |-> TRUE]
    ELSE LET losers == SelectSeq(presentAgents(conflicts[i]), LAMBDA id : id # source)
             r == resolveConflict(fs, conflicts[i].skillName, source, losers)
         IN IF ~r.ok THEN [fs |-> r.fs, ok |-> FALSE]
            ELSE resolveConflictsLoop(r.fs, conflicts, source, i + 1)

\* The copies and resolutions of one sync run, after the snapshot.
syncChanges(fs, unique, conflicts, source) ==
    LET u == syncUniqueLoop(fs, unique, 1)
    IN IF ~u.ok THEN u
       ELSE IF source # NoSource /\ Len(conflicts) > 0
            THEN resolveConflictsLoop(u.fs, conflicts, source, 1)
            ELSE u

\* One sync run.  The matrix, the snapshot and the changes are each computed
\* once (bound by a quantifier over a one-element set).
SyncCmd ==
    /\ ops < MaxCmds
    /\ ops' = ops + 1
    /\ \E source \in SourceArgs, dryRun \in BOOLEAN :
       \E matrix \in {buildMatrix(agentFs)} :
       \E unique \in {rowsWithStatus(matrix, "unique")} :
       \E conflicts \in {rowsWithStatus(matrix, "conflict")} :
          IF (Len(unique) = 0 /\ Len(conflicts) = 0) \/ dryRun
          THEN /\ last' = [op |-> "sync-none", source |-> source, dryRun |-> dryRun,
                           pre |-> agentFs, unique |-> unique, conflicts |-> conflicts]
               /\ UNCHANGED <<agentFs, snapFs, now, snapLog>>
          ELSE \E r \in {syncChanges(agentFs, unique, conflicts, source)} :
               IF autoSnapshot
               THEN \E d \in Delays :
                    \E skillPaths \in {syncSkillPaths(unique \o conflicts, 1)} :
                    \E w \in {writeSnapshot(snapFs, agentFs, skillPaths, "pre-sync",
                                            now, now + d[1])} :
                       /\ now + d[1] + d[2] <= MaxClock
                       /\ now' = now + d[1] + d[2]
                       /\ \E list \in listSnapshots(w.sfs) :
                             snapFs' = pruneOldSnapshots(w.sfs, list)
                       /\ snapLog' = Append(snapLog,
                              [id |-> w.id, created |-> now + d[1], paths |-> skillPaths,
                               entries |-> [i \in 1..Len(skillPaths) |->
                                               agentFs[skillPaths[i][1]][skillPaths[i][2]]]])
                       /\ agentFs' = r.fs
                       /\ last' = [op |-> "sync", source |-> source, dryRun |-> dryRun,
                                   pre |-> agentFs, unique |-> unique, conflicts |-> conflicts,
                                   snapshotted |-> TRUE, snap |-> w.sfs[w.id], ok |-> r.ok]
               ELSE /\ agentFs' = r.fs
                    /\ last' = [op |-> "sync", source |-> source, dryRun |-> dryRun,
                                pre |-> agentFs, unique |-> unique, conflicts |-> conflicts,
                                snapshotted |-> FALSE, snap |-> NewSnapshotDir, ok |-> r.ok]
                    /\ UNCHANGED <<snapFs, now, snapLog>>
    /\ UNCHANGED <<tui, detected, maxCount, autoSnapshot, linkFs, storeFs, registry, edits>>

RECURSIVE restoreLoop(_, _, _, _)
restoreLoop(fs, sfs, snapshotId, i) ==
    IF i > Len(DetectedOrder) THEN fs
    ELSE restoreLoop([fs EXCEPT ![DetectedOrder[i]] = restore(sfs, snapshotId, @)],
                     sfs, snapshotId, i + 1)

UndoCmd ==
    /\ ops < MaxCmds
    /\ ops' = ops + 1
    /\ \E dryRun \in BOOLEAN, list \in listSnapshots(snapFs) :
        LET latest == getLatestSnapshot(list)
        IN /\ IF latest.present /\ ~dryRun
              THEN agentFs' = restoreLoop(agentFs, snapFs, latest.id, 1)
              ELSE agentFs' = agentFs
           /\ last' = [op |-> "undo", dryRun |-> dryRun, latest |-> latest,
                       pre |-> agentFs, before |-> last]
    /\ UNCHANGED <<tui, detected, maxCount, autoSnapshot, snapFs, now, linkFs, storeFs,
                   registry, edits, snapLog>>

InitCmd ==
    /\ agentFs = [a \in Agents |-> EmptyAgentDir]
    /\ detected \in DetectedConfigs
    /\ maxCount = MaxRetention
    /\ autoSnapshot \in BOOLEAN
    /\ snapFs = <<>>
    /\ now = 0
    /\ linkFs = <<>>
    /\ storeFs = [s \in Skills |-> Absent]
    /\ registry = <<>>
    /\ edits = 0
    /\ ops = 0
    /\ snapLog = <<>>
    /\ tui = NoTui
    /\ last = NoOp

NextCmd ==
    \/ UserEdit
    \/ SyncCmd
    \/ UndoCmd

SpecCmd == InitCmd /\ [][NextCmd]_vars

----------------------------------------------------------------------------
(* Claims about the matrix and the sync/resolve operations *)

RowPresent(row) == {a \in DOMAIN row.agents : row.agents[a].present}

RowHashes(row) == {row.agents[a].hash : a \in RowPresent(row)}

\* C1: every row returned by buildMatrix is classified from the hashes of the
\* detected agents where the skill is present: unique with exactly one such
\* agent, synced with two or more and equal hashes, conflict with two or more
\* and differing hashes; no row is ever 'missing'.
C1_StatusFromPresentHashes ==
    last.op = "buildMatrix" =>
        \A i \in 1..Len(last.matrix) :
            LET row == last.matrix[i]
                n == Cardinality(RowPresent(row))
                h == Cardinality(RowHashes(row))
            IN /\ RowPresent(row) = {a \in DetectedAgents : IsSkillDir(agentFs[a][row.skillName])}
               /\ row.status # "missing"
               /\ n >= 1
               /\ (n = 1) <=> (row.status = "unique")
               /\ (n >= 2 /\ h = 1) <=> (row.status = "synced")
               /\ (n >= 2 /\ h >= 2) <=> (row.status = "conflict")

C1_Witness ==
    /\ last.op = "buildMatrix"
    /\ \E i \in 1..Len(last.matrix) :
          /\ last.matrix[i].status = "conflict"
          /\ Cardinality(RowPresent(last.matrix[i])) = 2

PresentOnlyIn(fs, skillName, agentId) ==
    /\ detected[agentId]
    /\ skillName \in listSkills(fs, agentId)
    /\ \A b \in DetectedAgents \ {agentId} : skillName \notin listSkills(fs, b)

\* C2: if a skill is present only in detected agent A (and some other agent
\* is detected), then after syncUnique(skill, A) every other detected agent
\* holds a copy with A's file set and contents, A's copy is unchanged, and a
\* rebuilt matrix classifies the skill as synced.
C2_SyncUniqueMakesSynced ==
    ( /\ last.op = "syncUnique"
      /\ PresentOnlyIn(last.pre, last.skill, last.source)
      /\ DetectedAgents \ {last.source} # {} )
    => /\ \A b \in DetectedAgents \ {last.source} :
             agentFs[b][last.skill] = last.pre[last.source][last.skill]
       /\ agentFs[last.source][last.skill] = last.pre[last.source][last.skill]
       /\ matrixRow(agentFs, last.skill).status = "synced"

HoldDifferentContent(fs, skillName, w, l) ==
    /\ IsSkillDir(fs[w][skillName])
    /\ IsSkillDir(fs[l][skillName])
    /\ fs[w][skillName] # fs[l][skillName]

ResolvedOne == 
    /\ last.op = "resolveConflict"
    /\ Len(last.losers) = 1
    /\ HoldDifferentContent(last.pre, last.skill, last.winner, last.losers[1])

LoserNowEqualsWinner ==
    /\ last.ok
    /\ agentFs[last.losers[1]][last.skill] = last.pre[last.winner][last.skill]
    /\ agentFs[last.winner][last.skill] = last.pre[last.winner][last.skill]

\* C3 as stated: if W and L hold different content for a skill, then after
\* resolveConflict(skill, W, [L]) L's copy is exactly W's, W's copy is
\* unchanged, and a rebuilt matrix classifies the skill as synced.
C3_Original ==
    ResolvedOne =>
        /\ LoserNowEqualsWinner
        /\ last.skill \in {buildMatrix(agentFs)[i].skillName : i \in 1..Len(buildMatrix(agentFs))}
        /\ matrixRow(agentFs, last.skill).status = "synced"

NoThirdVersion ==
    /\ detected[last.winner]
    /\ detected[last.losers[1]]
    /\ \A x \in DetectedAgents \ {last.winner, last.losers[1]} :
          IsSkillDir(last.pre[x][last.skill]) =>
              last.pre[x][last.skill] = last.pre[last.winner][last.skill]

\* C3 amended: after resolveConflict(skill, W, [L]) on different copies, L's
\* copy is exactly W's and W's copy is unchanged; the rebuilt matrix
\* classifies the skill as synced when W and L are detected and no other
\* detected agent holds a copy that differs from W's.
C3_ResolveMakesLoserEqual ==
    ResolvedOne =>
        /\ LoserNowEqualsWinner
        /\ NoThirdVersion => matrixRow(agentFs, last.skill).status = "synced"

C3_Witness ==
    /\ ResolvedOne
    /\ NoThirdVersion
    /\ last.pre[last.losers[1]][last.skill].files["ref.md"] # 0
    /\ last.pre[last.winner][last.skill].files["ref.md"] = 0
    /\ agentFs[last.losers[1]][last.skill].files["ref.md"] = 0

----------------------------------------------------------------------------
(* Claims about the snapshot store *)

\* Lexicographic order of two ids (fixed-width fields, most significant first).
IdLess(a, b) == a[1] < b[1] \/ (a[1] = b[1] /\ a[2] < b[2])

LatestCall == snapLog[Len(snapLog)]

\* The latest createSnapshot call was createSnapshot([D]) for a directory D,
\* and restore(id, parent of D) with the id it returned has just run.
RestoredLatestSingle ==
    /\ last.op = "restore"
    /\ Len(snapLog) > 0
    /\ last.id = LatestCall.id
    /\ Len(LatestCall.paths) = 1
    /\ LatestCall.entries[1].kind = "dir"
    /\ last.target = LatestCall.paths[1][1]

\* C4: snapshot round trip (retention limit at least one): after
\* createSnapshot([D]) returned id, any mutation of D followed by
\* restore(id, parent of D) leaves D with exactly the file set and contents
\* it had when the snapshot was taken.
C4_SnapshotRoundTrip ==
    (RestoredLatestSingle /\ maxCount >= 1) =>
        agentFs[LatestCall.paths[1][1]][LatestCall.paths[1][2]] = LatestCall.entries[1]

LoggedIds(from, to) == {snapLog[j].id : j \in from..to}

\* C5: retention: after N createSnapshot calls with limit K, N > K,
\* listSnapshots returns exactly K manifests, those of the K most recently
\* created snapshots, and the directories of all older snapshots are gone.
C5_Retention ==
    Len(snapLog) > maxCount =>
        \A list \in listSnapshots(snapFs) :
            /\ Len(list) = maxCount
            /\ {list[i].id : i \in 1..Len(list)} =
                   LoggedIds(Len(snapLog) - maxCount + 1, Len(snapLog))
            /\ \A j \in 1..(Len(snapLog) - maxCount) : snapLog[j].id \notin DOMAIN snapFs

\* C6: two createSnapshot calls made within the same second never collide:
\* they return distinct ids, and the lexicographic order of the ids is the
\* order in which the snapshots were created.
C6_NoCollision ==
    \A i, j \in 1..Len(snapLog) :
        (i < j /\ snapLog[i].id[1] = snapLog[j].id[1]) =>
            /\ snapLog[i].id # snapLog[j].id
            /\ IdLess(snapLog[i].id, snapLog[j].id)

----------------------------------------------------------------------------
(* Claims about the sync and undo commands *)

AffectedRows == last.unique \o last.conflicts

\* C7: when sync runs with autoSnapshot enabled and some skill is unique or
\* conflicting, the snapshot taken before the first copy or delete holds
\* every present copy of every affected skill from every agent, so each
\* agent's own pre-sync content can be recovered from it.
C7_SnapshotHoldsEveryCopy ==
    (last.op = "sync" /\ last.snapshotted) =>
        \A i \in 1..Len(AffectedRows) :
            \A a \in RowPresent(AffectedRows[i]) :
                last.snap.skills[AffectedRows[i].skillName] =
                    last.pre[a][AffectedRows[i].skillName]

\* C8: a sync run (autoSnapshot enabled) followed immediately by undo returns
\* every detected agent's skills directory to its pre-sync state.
C8_UndoRestoresPreSync ==
    ( /\ last.op = "undo"
      /\ ~last.dryRun
      /\ last.before.op = "sync"
      /\ last.before.snapshotted )
    => \A a \in DetectedAgents : agentFs[a] = last.before.pre[a]

----------------------------------------------------------------------------
(* The symlink primitives (utils/symlinks.ts), applied to the paths of one
   agent skills directory: the directory itself and the entries in it. *)

MaxLinkOps == 2

LinkDir == "skills"

LinkTargets == {"skills/alpha", "skills/Beta"}

LinkPaths == {LinkDir} \cup LinkTargets

\* The source argument is stored in the link as given; it need not exist.
LinkSources == {"store/alpha", "store/Beta"}

NullTarget == "null"

dirname(target) == LinkDir

\* What may be found at a target path: nothing, a real directory, a real
\* regular file, or a symlink.
LinkEntries ==
    {Absent, Dir([NoFiles EXCEPT !["SKILL.md"] = 1]), RegFile(1)}
        \cup {Link(src) : src \in LinkSources}

\* What may be found where the parent directory is expected.
ParentEntries == {Absent, Dir(NoFiles), RegFile(1)}

EmptyLinkFs == [p \in LinkPaths |-> Absent]

\* mkdir(dir, { recursive: true }): creates a missing directory, accepts an
\* existing one, and fails with EEXIST when a regular file is in the way.
mkdirRecursive(fs, dir) ==
    CASE fs[dir].kind = "none" -> [ok |-> TRUE, fs |-> [fs EXCEPT ![dir] = Dir(NoFiles)]]
      [] fs[dir].kind = "dir" -> [ok |-> TRUE, fs |-> fs]
      [] OTHER -> [ok |-> FALSE, fs |-> fs]

getSymlinkTarget(entry) ==
    IF entry.kind = "link" THEN entry.target ELSE NullTarget

isSymlink(entry) == entry.kind = "link"

\* A variant whose catch branch leaves a symlink that points elsewhere alone.
replaceExistingKeeps(existing, source) ==
    CASE existing.kind = "link" -> [ok |-> TRUE, entry |-> existing]
      [] existing.kind = "dir" -> [ok |-> FALSE, entry |-> existing]
      [] OTHER -> [ok |-> TRUE, entry |-> Link(source)]

\* The catch branch of createSymlink: symlink() failed with EEXIST because
\* something already is at the target.
replaceExisting(existing, source) ==
    IF isSymlink(existing) /\ getSymlinkTarget(existing) = source
    THEN [ok |-> TRUE, entry |-> existing]
    ELSE CASE existing.kind = "link" -> [ok |-> TRUE, entry |-> Link(source)]
           [] existing.kind = "dir" -> [ok |-> FALSE, entry |-> existing]
           [] OTHER -> [ok |-> TRUE, entry |-> Link(source)]

\* A variant without the catch branch: a bare symlink() call, which fails
\* with EEXIST on anything that exists.
linkOntoNoCatch(existing, source) ==
    IF existing.kind = "none"
    THEN [ok |-> TRUE, entry |-> Link(source)]
    ELSE [ok |-> FALSE, entry |-> existing]

\* createSymlink on the entry found at the target once its parent exists.
linkOnto(existing, source) ==
    IF existing.kind = "none"
    THEN [ok |-> TRUE, entry |-> Link(source)]
    ELSE replaceExisting(existing, source)

createSymlink(fs, source, target) ==
    LET m == mkdirRecursive(fs, dirname(target))
        r == linkOnto(m.fs[target], source)
    IN  IF ~m.ok
        THEN [ok |-> FALSE, fs |-> fs]
        ELSE [ok |-> r.ok, fs |-> [m.fs EXCEPT ![target] = r.entry]]

\* removeSymlink on the entry found at the path: a symlink or a regular
\* file is unlinked, a real directory is refused, a missing path is ignored.
removeAt(existing) ==
    CASE existing.kind = "none" -> [ok |-> TRUE, entry |-> existing]
      [] existing.kind = "link" -> [ok |-> TRUE, entry |-> Absent]
      [] existing.kind = "dir" -> [ok |-> FALSE, entry |-> existing]
      [] OTHER -> [ok |-> TRUE, entry |-> Absent]

\* removeSymlink: lstat fails with ENOENT (ignored) when the path or its
\* parent is missing, and with ENOTDIR (rethrown) when the parent is a file.
removeSymlink(fs, path) ==
    IF fs[dirname(path)].kind = "file"
    THEN [ok |-> FALSE, fs |-> fs]
    ELSE LET r == removeAt(fs[path])
         IN  [ok |-> r.ok, fs |-> [fs EXCEPT ![path] = r.entry]]

\* A change made from outside: the user replaces the directory (emptying
\* it), or puts something at a path inside it.
PlaceEntry ==
    /\ edits < MaxEdits
    /\ edits' = edits + 1
    /\ \/ \E e \in ParentEntries :
             /\ e # linkFs[LinkDir]
             /\ linkFs' = [EmptyLinkFs EXCEPT ![LinkDir] = e]
       \/ \E t \in LinkTargets, e \in LinkEntries :
             /\ linkFs[LinkDir].kind = "dir"
             /\ e # linkFs[t]
             /\ linkFs' = [linkFs EXCEPT ![t] = e]
    /\ last' = NoOp
    /\ UNCHANGED <<tui, agentFs, detected, maxCount, autoSnapshot, snapFs, now, storeFs,
                   registry, ops, snapLog>>

CreateSymlinkOp ==
    /\ ops < MaxLinkOps
    /\ ops' = ops + 1
    /\ \E source \in LinkSources, target \in LinkTargets :
          \E r \in {createSymlink(linkFs, source, target)} :
             /\ linkFs' = r.fs
             /\ last' = [op |-> "createSymlink", source |-> source, target |-> target,
                         pre |-> linkFs, ok |-> r.ok, before |-> last]
    /\ UNCHANGED <<tui, agentFs, detected, maxCount, autoSnapshot, snapFs, now, storeFs,
                   registry, edits, snapLog>>

RemoveSymlinkOp ==
    /\ ops < MaxLinkOps
    /\ ops' = ops + 1
    /\ \E path \in LinkTargets :
          \E r \in {removeSymlink(linkFs, path)} :
             /\ linkFs' = r.fs
             /\ last' = [op |-> "removeSymlink", path |-> path, pre |-> linkFs, ok |-> r.ok]
    /\ UNCHANGED <<tui, agentFs, detected, maxCount, autoSnapshot, snapFs, now, storeFs,
                   registry, edits, snapLog>>

InitLink ==
    /\ agentFs = [a \in Agents |-> EmptyAgentDir]
    /\ detected = [a \in Agents |-> TRUE]
    /\ maxCount = MaxRetention
    /\ autoSnapshot = TRUE
    /\ snapFs = <<>>
    /\ now = 0
    /\ linkFs = EmptyLinkFs
    /\ storeFs = [s \in Skills |-> Absent]
    /\ registry = <<>>
    /\ edits = 0
    /\ ops = 0
    /\ snapLog = <<>>
    /\ tui = NoTui
    /\ last = NoOp

NextLink ==
    \/ PlaceEntry
    \/ CreateSymlinkOp
    \/ RemoveSymlinkOp

SpecLink == InitLink /\ [][NextLink]_vars

----------------------------------------------------------------------------
(* The central store: adopt and doctor *)

MaxStoreOps == 2

\* join(skillsDir, name)
StorePath(name) == <<"store", name>>

NoSkill == [managed |-> FALSE]

ManagedSkill(agentId) ==
    [managed |-> TRUE, source |-> <<"adopted", agentId>>, assignments |-> {agentId}]

EmptyRegistry == [s \in Skills |-> NoSkill]

\* readdir returns the entries of a directory in no particular order.
SkillOrders == {<<"alpha", "Beta">>, <<"Beta", "alpha">>}

\* access(path) for a path in the store
hasSkill(store, name) == store[name].kind # "none"

Accessible(store, target) ==
    /\ target[1] = "store"
    /\ target[2] \in Skills
    /\ store[target[2]].kind # "none"

\* The scan of runAdopt: the real skill directories of the detected agents,
\* agent by agent, each directory in its readdir order.
RECURSIVE discover(_, _, _)
discover(fs, order, i) ==
    IF i > Len(DetectedOrder)
    THEN <<>>
    ELSE LET agentId == DetectedOrder[i]
             names == SelectSeq(order[agentId], LAMBDA n : IsSkillDir(fs[agentId][n]))
         IN  [k \in 1..Len(names) |-> [name |-> names[k], agentId |-> agentId]]
                 \o discover(fs, order, i + 1)

\* The keys of the byName map, in insertion order.
RECURSIVE byNameKeys(_, _)
byNameKeys(discovered, k) ==
    IF k > Len(discovered)
    THEN <<>>
    ELSE IF \E j \in 1..(k - 1) : discovered[j].name = discovered[k].name
         THEN byNameKeys(discovered, k + 1)
         ELSE <<discovered[k].name>> \o byNameKeys(discovered, k + 1)

byName(discovered, name) == SelectSeq(discovered, LAMBDA d : d.name = name)

\* toAdopt: one discovered copy per name that is not in the store yet; with
\* several copies the caller's onConflict picks the agent.
RECURSIVE planAdopt(_, _, _, _, _)
planAdopt(store, discovered, keys, chosen, i) ==
    IF i > Len(keys)
    THEN <<>>
    ELSE LET skills == byName(discovered, keys[i])
             rest == planAdopt(store, discovered, keys, chosen, i + 1)
         IN  IF hasSkill(store, keys[i])
             THEN rest
             ELSE IF Len(skills) = 1
                  THEN <<skills[1]>> \o rest
                  ELSE SelectSeq(skills, LAMBDA d : d.agentId = chosen[keys[i]]) \o rest

\* toTakeover: every discovered copy of a name that is in the store already.
RECURSIVE planTakeover(_, _, _, _)
planTakeover(store, discovered, keys, i) ==
    IF i > Len(keys)
    THEN <<>>
    ELSE IF hasSkill(store, keys[i])
         THEN byName(discovered, keys[i]) \o planTakeover(store, discovered, keys, i + 1)
         ELSE planTakeover(store, discovered, keys, i + 1)

\* SkillsStore.addSkill: cp(sourcePath, join(skillsDir, name), recursive)
addSkill(store, name, src) == [store EXCEPT ![name] = Cp(src, @)]

\* The adopt loop: copy into the store, remove the agent's directory, link
\* the agent's path to the store, enter the skill in the registry.
RECURSIVE adoptLoop(_, _, _)
adoptLoop(st, toAdopt, i) ==
    IF i > Len(toAdopt)
    THEN st
    ELSE LET d == toAdopt[i]
             l == linkOnto(Absent, StorePath(d.name))
         IN  adoptLoop([fs |-> [st.fs EXCEPT ![d.agentId][d.name] = l.entry],
                        store |-> addSkill(st.store, d.name, st.fs[d.agentId][d.name]),
                        reg |-> [st.reg EXCEPT ![d.name] = ManagedSkill(d.agentId)],
                        ok |-> TRUE],
                       toAdopt, i + 1)

\* The takeover loop: remove the agent's directory and link its path to the
\* store; the registry update fails when the registry has no such skill.
RECURSIVE takeoverLoop(_, _, _)
takeoverLoop(st, toTakeover, i) ==
    IF i > Len(toTakeover)
    THEN st
    ELSE LET d == toTakeover[i]
             l == linkOnto(Absent, StorePath(d.name))
             fs1 == [st.fs EXCEPT ![d.agentId][d.name] = l.entry]
         IN  IF ~st.reg[d.name].managed
             THEN [st EXCEPT !.fs = fs1, !.ok = FALSE]
             ELSE takeoverLoop([st EXCEPT !.fs = fs1,
                                          !.reg[d.name].assignments = @ \cup {d.agentId}],
                               toTakeover, i + 1)

runAdopt(fs, store, reg, toAdopt, toTakeover) ==
    takeoverLoop(adoptLoop([fs |-> fs, store |-> store, reg |-> reg, ok |-> TRUE],
                           toAdopt, 1),
                 toTakeover, 1)

\* The answers of onConflict: it is asked only about a name that is in
\* several agents and not in the store, and names one of the agents holding it.
NoAnswer == "none"

Holders(discovered, name) ==
    {d.agentId : d \in SeqToSet(byName(discovered, name))}

Answers(store, discovered) ==
    {chosen \in [Skills -> Agents \cup {NoAnswer}] :
        \A n \in Skills :
            IF ~hasSkill(store, n) /\ Len(byName(discovered, n)) > 1
            THEN chosen[n] \in Holders(discovered, n)
            ELSE chosen[n] = NoAnswer}

\* readdir is called on the directories of the detected agents only.
ReaddirOrders ==
    {order \in [Agents -> SkillOrders] :
        \A a \in Agents : ~detected[a] => order[a] = <<"alpha", "Beta">>}

\* simba adopt [--dry-run]
AdoptCmd ==
    /\ ops < MaxStoreOps
    /\ ops' = ops + 1
    /\ DetectedAgents # {}
    /\ \E dryRun \in BOOLEAN, order \in ReaddirOrders :
       \E discovered \in {discover(agentFs, order, 1)} :
       \E keys \in {byNameKeys(discovered, 1)} :
       \E chosen \in Answers(storeFs, discovered) :
          /\ \E toAdopt \in {planAdopt(storeFs, discovered, keys, chosen, 1)} :
             \E toTakeover \in {planTakeover(storeFs, discovered, keys, 1)} :
                IF (Len(toAdopt) = 0 /\ Len(toTakeover) = 0) \/ dryRun
                THEN /\ last' = [op |-> "adopt-none", dryRun |-> dryRun, pre |-> agentFs,
                                 toAdopt |-> toAdopt, toTakeover |-> toTakeover]
                     /\ UNCHANGED <<agentFs, storeFs, registry>>
                ELSE \E r \in {runAdopt(agentFs, storeFs, registry, toAdopt, toTakeover)} :
                     /\ agentFs' = r.fs
                     /\ storeFs' = r.store
                     /\ registry' = IF r.ok THEN r.reg ELSE registry
                     /\ last' = [op |-> "adopt", dryRun |-> dryRun, pre |-> agentFs,
                                 toAdopt |-> toAdopt, toTakeover |-> toTakeover,
                                 ok |-> r.ok]
    /\ UNCHANGED <<tui, detected, maxCount, autoSnapshot, snapFs, now, linkFs, edits, snapLog>>

\* A variant that reports a real file or directory as a broken link.
checkPairRealIsBroken(fs, store, skillName, agentId) ==
    LET entry == fs[agentId][skillName]
    IN  IF ~isSymlink(entry)
        THEN "symlink missing"
        ELSE IF ~Accessible(store, getSymlinkTarget(entry))
             THEN "target missing"
             ELSE IF getSymlinkTarget(entry) # StorePath(skillName)
                  THEN "wrong target"
                  ELSE "healthy"

\* runDoctor's verdict on one assignment pair, from the live entry at the
\* expected path.
checkPair(fs, store, skillName, agentId) ==
    LET entry == fs[agentId][skillName]
    IN  IF ~isSymlink(entry)
        THEN IF entry.kind # "none" THEN "rogue" ELSE "symlink missing"
        ELSE IF ~Accessible(store, getSymlinkTarget(entry))
             THEN "target missing"
             ELSE IF getSymlinkTarget(entry) # StorePath(skillName)
                  THEN "wrong target"
                  ELSE "healthy"

\* The assignment pairs runDoctor looks at: the agent is detected.
checkedPairs(reg) ==
    {<<n, a>> \in Skills \X Agents :
        reg[n].managed /\ a \in reg[n].assignments /\ detected[a]}

\* A variant that lists a skill as healthy as soon as one of its pairs is.
runDoctorAnyHealthy(fs, store, reg) ==
    LET pairs == checkedPairs(reg)
        class(pr) == checkPair(fs, store, pr[1], pr[2])
    IN  [healthy |-> {n \in Skills :
                        /\ reg[n].managed
                        /\ \E pr \in pairs : pr[1] = n /\ class(pr) = "healthy"},
         broken |-> {[skill |-> pr[1], agent |-> pr[2], reason |-> class(pr)] :
                        pr \in {q \in pairs : class(q) \notin {"healthy", "rogue"}}},
         rogue |-> {[skill |-> pr[1], agent |-> pr[2]] :
                        pr \in {q \in pairs : class(q) = "rogue"}}]

runDoctor(fs, store, reg) ==
    LET pairs == checkedPairs(reg)
        class(pr) == checkPair(fs, store, pr[1], pr[2])
    IN  [healthy |-> {n \in Skills :
                        /\ reg[n].managed
                        /\ \A pr \in pairs : pr[1] = n => class(pr) = "healthy"},
         broken |-> {[skill |-> pr[1], agent |-> pr[2], reason |-> class(pr)] :
                        pr \in {q \in pairs : class(q) \notin {"healthy", "rogue"}}},
         rogue |-> {[skill |-> pr[1], agent |-> pr[2]] :
                        pr \in {q \in pairs : class(q) = "rogue"}}]

\* The repair of one broken entry: removeSymlink, then createSymlink.
repairBroken(entry, skillName) ==
    LET r == removeAt(entry)
    IN  IF ~r.ok THEN r ELSE linkOnto(r.entry, StorePath(skillName))

\* The repair of one rogue entry: rm -r, then createSymlink.
repairRogue(entry, skillName) == linkOnto(Absent, StorePath(skillName))

\* Both repair loops; every entry is at a path of its own.
repairAll(fs, results) ==
    [a \in Agents |-> [n \in Skills |->
        IF \E b \in results.broken : b.skill = n /\ b.agent = a
        THEN repairBroken(fs[a][n], n).entry
        ELSE IF \E g \in results.rogue : g.skill = n /\ g.agent = a
             THEN repairRogue(fs[a][n], n).entry
             ELSE fs[a][n]]]

\* simba doctor [--fix]; without --fix the user is asked to confirm.
DoctorCmd ==
    /\ ops < MaxStoreOps
    /\ ops' = ops + 1
    /\ \E fix \in BOOLEAN, shouldFix \in BOOLEAN :
       \E results \in {runDoctor(agentFs, storeFs, registry)} :
          /\ agentFs' = IF (results.broken = {} /\ results.rogue = {}) \/ (~fix /\ ~shouldFix)
                        THEN agentFs
                        ELSE repairAll(agentFs, results)
          /\ last' = [op |-> "doctor", fix |-> fix, shouldFix |-> shouldFix,
                      pre |-> agentFs, results |-> results]
    /\ UNCHANGED <<tui, detected, maxCount, autoSnapshot, snapFs, now, linkFs, storeFs,
                   registry, edits, snapLog>>

InitStore ==
    /\ agentFs = [a \in Agents |-> EmptyAgentDir]
    /\ detected \in DetectedConfigs
    /\ maxCount = MaxRetention
    /\ autoSnapshot = TRUE
    /\ snapFs = <<>>
    /\ now = 0
    /\ linkFs = <<>>
    /\ storeFs = [s \in Skills |-> Absent]
    /\ registry = EmptyRegistry
    /\ edits = 0
    /\ ops = 0
    /\ snapLog = <<>>
    /\ tui = NoTui
    /\ last = NoOp

NextStore ==
    \/ UserEdit
    \/ AdoptCmd
    \/ DoctorCmd

SpecStore == InitStore /\ [][NextStore]_vars

----------------------------------------------------------------------------
(* Doctor run against an arbitrary registry and file system *)

\* What doctor may find at an expected path: nothing, a real directory, a
\* real file, or a symlink into the store (to the skill or to another one).
DoctorEntries ==
    {Absent, Dir([NoFiles EXCEPT !["SKILL.md"] = 1]), RegFile(1)}
        \cup {Link(StorePath(n)) : n \in Skills}

StoreEntries == {Absent, Dir([NoFiles EXCEPT !["SKILL.md"] = 1])}

\* registry.json: alpha is managed and assigned to one or two agents, Beta
\* is unmanaged or assigned to claude.
RegistryConfigs ==
    {[alpha |-> [ManagedSkill("claude") EXCEPT !.assignments = A],
      Beta |-> b] :
        A \in {{"claude"}, {"claude", "cursor"}, {"cursor", "codex"}},
        b \in {NoSkill, ManagedSkill("claude")}}

InitDoctor ==
    /\ \E ca \in DoctorEntries, ua \in DoctorEntries, cb \in DoctorEntries :
          agentFs = [a \in Agents |-> [n \in Skills |->
                        CASE a = "claude" /\ n = "alpha" -> ca
                          [] a = "cursor" /\ n = "alpha" -> ua
                          [] a = "claude" /\ n = "Beta" -> cb
                          [] OTHER -> Absent]]
    /\ detected \in DetectedConfigs
    /\ maxCount = MaxRetention
    /\ autoSnapshot = TRUE
    /\ snapFs = <<>>
    /\ now = 0
    /\ linkFs = <<>>
    /\ storeFs \in [Skills -> StoreEntries]
    /\ registry \in RegistryConfigs
    /\ edits = 0
    /\ ops = 0
    /\ snapLog = <<>>
    /\ tui = NoTui
    /\ last = NoOp

NextDoctor == DoctorCmd

SpecDoctor == InitDoctor /\ [][NextDoctor]_vars

----------------------------------------------------------------------------
(* Assign and unassign *)

\* The agents argument of assign and unassign: a comma-separated list.
AgentArgs ==
    {<<"claude">>, <<"cursor">>, <<"claude", "cursor">>, <<"cursor", "claude">>,
     <<"codex", "ghost">>}

\* A variant that reports success and creates nothing.
assignSkillNoLink(entry, name) == [ok |-> TRUE, entry |-> entry]

\* SkillsStore.assignSkill with a directory assignment: createSymlink from
\* the agent's path to the store path.
assignSkill(entry, name) == linkOnto(entry, StorePath(name))

\* SkillsStore.unassignSkill: removeSymlink on the agent's path.
unassignSkill(entry) == removeAt(entry)

\* A variant of the unassign loop that also removes the store copy.
RECURSIVE unassignLoopPurges(_, _, _, _)
unassignLoopPurges(st, skill, agents, i) ==
    IF i > Len(agents)
    THEN st
    ELSE IF agents[i] \notin DetectedAgents
         THEN unassignLoopPurges(st, skill, agents, i + 1)
         ELSE LET r == unassignSkill(st.fs[agents[i]][skill])
              IN  IF ~r.ok
                  THEN [st EXCEPT !.ok = FALSE]
                  ELSE unassignLoopPurges(
                           [st EXCEPT !.fs[agents[i]][skill] = r.entry,
                                      !.store[skill] = Absent,
                                      !.reg[skill].assignments = @ \ {agents[i]}],
                           skill, agents, i + 1)

\* The loop of runUnassign; agentPaths holds the detected agents only, any
\* other id is reported and skipped.  A throw leaves the loop.
RECURSIVE unassignLoop(_, _, _, _)
unassignLoop(st, skill, agents, i) ==
    IF i > Len(agents)
    THEN st
    ELSE IF agents[i] \notin DetectedAgents
         THEN unassignLoop(st, skill, agents, i + 1)
         ELSE LET r == unassignSkill(st.fs[agents[i]][skill])
              IN  IF ~r.ok
                  THEN [st EXCEPT !.ok = FALSE]
                  ELSE unassignLoop(
                           [st EXCEPT !.fs[agents[i]][skill] = r.entry,
                                      !.reg[skill].assignments = @ \ {agents[i]}],
                           skill, agents, i + 1)

\* The loop of runAssign.
RECURSIVE assignLoop(_, _, _, _)
assignLoop(st, skill, agents, i) ==
    IF i > Len(agents)
    THEN st
    ELSE IF agents[i] \notin DetectedAgents
         THEN assignLoop(st, skill, agents, i + 1)
         ELSE LET r == assignSkill(st.fs[agents[i]][skill], skill)
              IN  IF ~r.ok
                  THEN [st EXCEPT !.ok = FALSE]
                  ELSE assignLoop(
                           [st EXCEPT !.fs[agents[i]][skill] = r.entry,
                                      !.reg[skill].assignments = @ \cup {agents[i]}],
                           skill, agents, i + 1)

\* simba unassign <skill> <agents>; an unknown skill ends the process, and
\* the registry is saved only when the loop ran to its end.
UnassignCmd ==
    /\ ops < MaxStoreOps
    /\ ops' = ops + 1
    /\ \E skill \in Skills, agents \in AgentArgs :
          IF ~registry[skill].managed
          THEN /\ last' = [op |-> "unassign-unknown", skill |-> skill, agents |-> agents]
               /\ UNCHANGED <<agentFs, storeFs, registry>>
          ELSE \E r \in {unassignLoop([fs |-> agentFs, store |-> storeFs,
                                       reg |-> registry, ok |-> TRUE],
                                      skill, agents, 1)} :
               /\ agentFs' = r.fs
               /\ storeFs' = r.store
               /\ registry' = IF r.ok THEN r.reg ELSE registry
               /\ last' = [op |-> "unassign", skill |-> skill, agents |-> agents,
                           pre |-> agentFs, preStore |-> storeFs, preReg |-> registry,
                           ok |-> r.ok]
    /\ UNCHANGED <<tui, detected, maxCount, autoSnapshot, snapFs, now, linkFs, edits, snapLog>>

\* simba assign <skill> <agents>
AssignCmd ==
    /\ ops < MaxStoreOps
    /\ ops' = ops + 1
    /\ \E skill \in Skills, agents \in AgentArgs :
          IF ~registry[skill].managed
          THEN /\ last' = [op |-> "assign-unknown", skill |-> skill, agents |-> agents]
               /\ UNCHANGED <<agentFs, storeFs, registry>>
          ELSE \E r \in {assignLoop([fs |-> agentFs, store |-> storeFs,
                                     reg |-> registry, ok |-> TRUE],
                                    skill, agents, 1)} :
               /\ agentFs' = r.fs
               /\ storeFs' = r.store
               /\ registry' = IF r.ok THEN r.reg ELSE registry
               /\ last' = [op |-> "assign", skill |-> skill, agents |-> agents,
                           pre |-> agentFs, preStore |-> storeFs, preReg |-> registry,
                           ok |-> r.ok]
    /\ UNCHANGED <<tui, detected, maxCount, autoSnapshot, snapFs, now, linkFs, edits, snapLog>>

\* The store holds both skills; claude's Beta path is free or a symlink.
InitAssign ==
    /\ InitDoctor
    /\ \A n \in Skills : storeFs[n].kind = "dir"
    /\ agentFs["claude"]["Beta"].kind \in {"none", "link"}

NextAssign ==
    \/ AssignCmd
    \/ UnassignCmd

SpecAssign == InitAssign /\ [][NextAssign]_vars

----------------------------------------------------------------------------
(* AgentRegistry called directly, with agent ids and skill names it may   *)
(* not know                                                                *)

MaxRegistryOps == 1

UnknownAgent == "ghost"

AgentIds == Agents \cup {UnknownAgent}

listSkillsError(agentId) ==
    IF agentId \notin Agents THEN UnknownAgentError({agentId}) ELSE NoError

copySkillError(fs, skillName, fromAgent, toAgent) ==
    IF fromAgent \notin Agents \/ toAgent \notin Agents
    THEN UnknownAgentError({fromAgent, toAgent})
    ELSE IF fs[fromAgent][skillName].kind = "none"
         THEN SystemError("ENOENT", <<fromAgent, skillName>>)
         ELSE IF fromAgent = toAgent
              THEN SystemError("ERR_FS_CP_EINVAL", <<toAgent, skillName>>)
              ELSE IF ~CpOk(fs[fromAgent][skillName], fs[toAgent][skillName])
                   THEN SystemError("ERR_FS_CP", <<toAgent, skillName>>)
                   ELSE NoError

deleteSkillError(fs, skillName, agentId) ==
    IF agentId \notin Agents THEN UnknownAgentError({agentId})
    ELSE IF fs[agentId][skillName].kind = "none"
         THEN SystemError("ENOENT", <<agentId, skillName>>)
         ELSE NoError

getSkillPathError(agentId) ==
    IF agentId \notin Agents THEN UnknownAgentError({agentId}) ELSE NoError

getSkillPath(skillName, agentId) == <<agentId, skillName>>

ListSkillsOp ==
    /\ ops < MaxRegistryOps
    /\ ops' = ops + 1
    /\ \E agentId \in AgentIds :
          last' = [op |-> "listSkills", agent |-> agentId, pre |-> agentFs,
                   error |-> listSkillsError(agentId),
                   ret |-> IF agentId \in Agents THEN listSkills(agentFs, agentId) ELSE {}]
    /\ UNCHANGED <<tui, agentFs, detected, maxCount, autoSnapshot, snapFs, now, linkFs,
                   storeFs, registry, edits, snapLog>>

CopySkillOp ==
    /\ ops < MaxRegistryOps
    /\ ops' = ops + 1
    /\ \E skillName \in Skills, fromAgent \in AgentIds, toAgent \in AgentIds :
          \E e \in {copySkillError(agentFs, skillName, fromAgent, toAgent)} :
             /\ agentFs' = IF e = NoError
                           THEN copySkill(agentFs, skillName, fromAgent, toAgent)
                           ELSE agentFs
             /\ last' = [op |-> "copySkill", skill |-> skillName, from |-> fromAgent,
                         to |-> toAgent, pre |-> agentFs, error |-> e]
    /\ UNCHANGED <<tui, detected, maxCount, autoSnapshot, snapFs, now, linkFs,
                   storeFs, registry, edits, snapLog>>

DeleteSkillOp ==
    /\ ops < MaxRegistryOps
    /\ ops' = ops + 1
    /\ \E skillName \in Skills, agentId \in AgentIds :
          \E e \in {deleteSkillError(agentFs, skillName, agentId)} :
             /\ agentFs' = IF e = NoError
                           THEN deleteSkill(agentFs, skillName, agentId)
                           ELSE agentFs
             /\ last' = [op |-> "deleteSkill", skill |-> skillName, agent |-> agentId,
                         pre |-> agentFs, error |-> e]
    /\ UNCHANGED <<tui, detected, maxCount, autoSnapshot, snapFs, now, linkFs,
                   storeFs, registry, edits, snapLog>>

GetSkillPathOp ==
    /\ ops < MaxRegistryOps
    /\ ops' = ops + 1
    /\ \E skillName \in Skills, agentId \in AgentIds :
          last' = [op |-> "getSkillPath", skill |-> skillName, agent |-> agentId,
                   pre |-> agentFs, error |-> getSkillPathError(agentId),
                   ret |-> getSkillPath(skillName, agentId)]
    /\ UNCHANGED <<tui, agentFs, detected, maxCount, autoSnapshot, snapFs, now, linkFs,
                   storeFs, registry, edits, snapLog>>

InitRegistry == InitCommon

NextRegistry ==
    \/ UserEdit
    \/ ListSkillsOp
    \/ CopySkillOp
    \/ DeleteSkillOp
    \/ GetSkillPathOp

SpecRegistry == InitRegistry /\ [][NextRegistry]_vars

----------------------------------------------------------------------------
(* simba migrate --from A --to B [--dry-run] *)

\* runMigrate ends the process when an agent is unknown or not detected.
migrateRefused(from, to) ==
    \/ from \notin Agents
    \/ to \notin Agents
    \/ ~detected[from]
    \/ ~detected[to]

\* The skills of the source agent, in its readdir order, that the target
\* agent does not list.
migrateToCopy(fs, from, to, order) ==
    SelectSeq(order, LAMBDA s : s \in listSkills(fs, from) /\ s \notin listSkills(fs, to))

migrateSkipped(fs, from, to, order) ==
    SelectSeq(order, LAMBDA s : s \in listSkills(fs, from) /\ s \in listSkills(fs, to))

\* The copy loop; a throw of copySkill leaves it.
RECURSIVE migrateLoop(_, _, _, _, _)
migrateLoop(fs, toCopy, from, to, i) ==
    IF i > Len(toCopy) THEN [fs |-> fs, ok |-> TRUE]
    ELSE IF ~copySkillOk(fs, toCopy[i], from, to)
         THEN [fs |-> fs, ok |-> FALSE]
         ELSE migrateLoop(copySkill(fs, toCopy[i], from, to), toCopy, from, to, i + 1)

MigrateCmd ==
    /\ ops < MaxCmds
    /\ ops' = ops + 1
    /\ \E from \in AgentIds, to \in AgentIds, dryRun \in BOOLEAN, order \in SkillOrders :
          IF migrateRefused(from, to)
          THEN /\ last' = [op |-> "migrate-refused", from |-> from, to |-> to,
                           dryRun |-> dryRun, pre |-> agentFs]
               /\ UNCHANGED <<agentFs, snapFs, now, snapLog>>
          ELSE
          \E toCopy \in {migrateToCopy(agentFs, from, to, order)} :
          \E skipped \in {migrateSkipped(agentFs, from, to, order)} :
             IF dryRun \/ Len(toCopy) = 0
             THEN /\ last' = [op |-> "migrate-none", from |-> from, to |-> to,
                              dryRun |-> dryRun, pre |-> agentFs,
                              toCopy |-> toCopy, skipped |-> skipped]
                  /\ UNCHANGED <<agentFs, snapFs, now, snapLog>>
             ELSE \E r \in {migrateLoop(agentFs, toCopy, from, to, 1)} :
                  IF autoSnapshot
                  THEN \E d \in Delays :
                       \E skillPaths \in {[i \in 1..Len(toCopy) |-> <<from, toCopy[i]>>]} :
                       \E w \in {writeSnapshot(snapFs, agentFs, skillPaths, "migrate",
                                               now, now + d[1])} :
                          /\ now + d[1] + d[2] <= MaxClock
                          /\ now' = now + d[1] + d[2]
                          /\ \E list \in listSnapshots(w.sfs) :
                                snapFs' = pruneOldSnapshots(w.sfs, list)
                          /\ snapLog' = Append(snapLog,
                                 [id |-> w.id, created |-> now + d[1], paths |-> skillPaths,
                                  entries |-> [i \in 1..Len(skillPaths) |->
                                                  agentFs[skillPaths[i][1]][skillPaths[i][2]]]])
                          /\ agentFs' = r.fs
                          /\ last' = [op |-> "migrate", from |-> from, to |-> to,
                                      dryRun |-> dryRun, pre |-> agentFs,
                                      toCopy |-> toCopy, skipped |-> skipped, ok |-> r.ok]
                  ELSE /\ agentFs' = r.fs
                       /\ last' = [op |-> "migrate", from |-> from, to |-> to,
                                   dryRun |-> dryRun, pre |-> agentFs,
                                   toCopy |-> toCopy, skipped |-> skipped, ok |-> r.ok]
                       /\ UNCHANGED <<snapFs, now, snapLog>>
    /\ UNCHANGED <<tui, detected, maxCount, autoSnapshot, linkFs, storeFs, registry, edits>>

MaxMigrateRuns == 1

InitMigrate == InitCmd

\* Changes from outside, then runs of migrate.
NextMigrate ==
    \/ UserEdit
    \/ (ops < MaxMigrateRuns /\ MigrateCmd)

SpecMigrate == InitMigrate /\ [][NextMigrate]_vars

----------------------------------------------------------------------------
(* simba restore --snapshot <id> [--to <agent>] [--dry-run] *)

NoTo == ""

ToArgs == AgentIds \cup {NoTo}

\* The agents the restore command restores into; an id that is not
\* configured is passed over.
restoreTargets(to) ==
    IF to = NoTo THEN DetectedOrder
    ELSE IF to \in Agents THEN <<to>> ELSE <<>>

RECURSIVE restoreEach(_, _, _, _, _)
restoreEach(fs, sfs, snapshotId, targets, i) ==
    IF i > Len(targets) THEN fs
    ELSE restoreEach([fs EXCEPT ![targets[i]] = restore(sfs, snapshotId, @)],
                     sfs, snapshotId, targets, i + 1)

\* A variant that restores whether or not --dry-run was given.
restoreCmdActsAlways(found, dryRun) == found

\* The command restores when the snapshot is listed and --dry-run is not set.
restoreCmdActs(found, dryRun) == found /\ ~dryRun

RestoreCmd ==
    /\ ops < MaxCmds
    /\ ops' = ops + 1
    /\ \E snapshotId \in DOMAIN snapFs \cup {snapLog[i].id : i \in 1..Len(snapLog)},
          to \in ToArgs, dryRun \in BOOLEAN :
          \E found \in {snapshotId \in WithManifest(snapFs)} :
             /\ IF restoreCmdActs(found, dryRun)
                THEN agentFs' = restoreEach(agentFs, snapFs, snapshotId, restoreTargets(to), 1)
                ELSE agentFs' = agentFs
             /\ last' = [op |-> "restore-cmd", id |-> snapshotId, to |-> to,
                         dryRun |-> dryRun, found |-> found, pre |-> agentFs]
    /\ UNCHANGED <<tui, detected, maxCount, autoSnapshot, snapFs, now, linkFs, storeFs,
                   registry, edits, snapLog>>

----------------------------------------------------------------------------
(* The commands that take --dry-run, run one after another on agents that  *)
(* hold a conflicting skill and a unique one                               *)

InitDryRun ==
    /\ agentFs = [a \in Agents |-> [s \in Skills |->
                     IF <<a, s>> = <<"claude", "alpha">> THEN Dir([NoFiles EXCEPT !["SKILL.md"] = 1])
                     ELSE IF <<a, s>> = <<"claude", "Beta">> THEN Dir([p \in Paths |-> 1])
                     ELSE IF <<a, s>> = <<"cursor", "alpha">> THEN Dir([NoFiles EXCEPT !["SKILL.md"] = 2])
                     ELSE Absent]]
    /\ detected \in DetectedConfigs
    /\ maxCount = MaxRetention
    /\ autoSnapshot \in BOOLEAN
    /\ snapFs = <<>>
    /\ now = 0
    /\ linkFs = <<>>
    /\ storeFs = [s \in Skills |-> Absent]
    /\ registry = EmptyRegistry
    /\ edits = 0
    /\ ops = 0
    /\ snapLog = <<>>
    /\ tui = NoTui
    /\ last = NoOp

NextDryRun ==
    \/ SyncCmd
    \/ MigrateCmd
    \/ AdoptCmd
    \/ UndoCmd
    \/ RestoreCmd

SpecDryRun == InitDryRun /\ [][NextDryRun]_vars

----------------------------------------------------------------------------
(* The tree hasher on arbitrary file names.  A relative path is a sequence *)
(* of characters; the hex digest of a file is written as one character.    *)
(* A tree is a function from the relative paths of its files to their      *)
(* bytes, and readdir hands the files over in an order of its own.         *)

MaxHashCalls == 2

MaxTreeFiles == 2

\* The digest of a file's bytes, in hex.
hexDigest(content) == IF content = 1 THEN "#1" ELSE "#2"

\* File names: plain ones, the same accented letter precomposed ("U+00E9")
\* and as a letter followed by a combining accent ("e", "U+0301"), and a
\* name that holds a colon, a digest and a line feed.
HashNames ==
    {<<"a">>, <<"b">>, <<"U+00E9">>, <<"e", "U+0301">>, <<"a", ":", hexDigest(1), "\n", "b">>}

\* Canonical decomposition of a string.
RECURSIVE canonical(_)
canonical(str) ==
    IF str = <<>> THEN <<>>
    ELSE (IF Head(str) = "U+00E9" THEN <<"e", "U+0301">> ELSE <<Head(str)>>) \o canonical(Tail(str))

CharRank(ch) ==
    CASE ch = "\n" -> 1
      [] ch = ":" -> 2
      [] ch = "#1" -> 3
      [] ch = "#2" -> 4
      [] ch = "a" -> 5
      [] ch = "b" -> 6
      [] ch = "e" -> 7
      [] OTHER -> 8

RECURSIVE compareFrom(_, _, _)
compareFrom(x, y, i) ==
    IF i > Len(x) /\ i > Len(y) THEN 0
    ELSE IF i > Len(x) THEN -1
    ELSE IF i > Len(y) THEN 1
    ELSE IF CharRank(x[i]) < CharRank(y[i]) THEN -1
    ELSE IF CharRank(x[i]) > CharRank(y[i]) THEN 1
    ELSE compareFrom(x, y, i + 1)

\* String.prototype.localeCompare: canonically equivalent strings compare
\* as equal.
localeCompare(x, y) == compareFrom(canonical(x), canonical(y), 1)

\* Array.prototype.sort is stable: an element goes behind the elements that
\* do not compare greater than it.
insertFile(sorted, f) ==
    LET k == Cardinality({i \in 1..Len(sorted) :
                 \A j \in 1..i : localeCompare(sorted[j].path, f.path) <= 0})
    IN SubSeq(sorted, 1, k) \o <<f>> \o SubSeq(sorted, k + 1, Len(sorted))

RECURSIVE sortFiles(_, _)
sortFiles(files, i) ==
    IF i = 0 THEN <<>> ELSE insertFile(sortFiles(files, i - 1), files[i])

\* files.map(f => `${f.path}:${f.hash}`).join("\n")
RECURSIVE treeContentFrom(_, _)
treeContentFrom(files, i) ==
    IF i > Len(files) THEN <<>>
    ELSE (IF i > 1 THEN <<"\n">> ELSE <<>>)
         \o files[i].path \o <<":", files[i].hash>>
         \o treeContentFrom(files, i + 1)

\* collectFiles pushes the files in the order readdir returns them.
collectFilesIn(tree, order) ==
    [i \in 1..Len(order) |-> [path |-> order[i], hash |-> hexDigest(tree[order[i]])]]

hashTreeIn(tree, order) ==
    LET files == sortFiles(collectFilesIn(tree, order), Len(order))
    IN [treeHash |-> Sha256(treeContentFrom(files, 1)), files |-> files]

HashTrees ==
    UNION {[D -> Contents] : D \in {E \in SUBSET HashNames : Cardinality(E) <= MaxTreeFiles}}

\* The orders readdir may return the files of a tree in.
Enumerations(tree) ==
    LET n == Cardinality(DOMAIN tree)
    IN {q \in [1..n -> DOMAIN tree] : \A i, j \in 1..n : i # j => q[i] # q[j]}

\* One call of hashTree; the call before it is remembered.
HashTreeOp ==
    /\ ops < MaxHashCalls
    /\ ops' = ops + 1
    /\ \E tree \in HashTrees :
       \E order \in Enumerations(tree) :
          last' = [op |-> "hashTree", tree |-> tree, order |-> order,
                   ret |-> hashTreeIn(tree, order),
                   before |-> IF last.op = "hashTree"
                              THEN [op |-> "hashTree", tree |-> last.tree,
                                    order |-> last.order, ret |-> last.ret]
                              ELSE NoOp]
    /\ UNCHANGED <<tui, agentFs, detected, maxCount, autoSnapshot, snapFs, now, linkFs,
                   storeFs, registry, edits, snapLog>>

InitHash == InitCommon /\ detected = [a \in Agents |-> TRUE]

NextHash == HashTreeOp

SpecHash == InitHash /\ [][NextHash]_vars

----------------------------------------------------------------------------
(* simba uninstall *)

\* The skills argument of runUninstall: one name, two names, a name twice.
SkillArgs == {<<"alpha">>, <<"Beta">>, <<"alpha", "Beta">>, <<"alpha", "alpha">>}

\* The command passes the path of every configured agent.
uninstallAgentPaths == Agents

\* A variant that leaves the store directory in place whatever was asked.
uninstallSkillKeepsStore(st, name, deleteFiles) ==
    [fs |-> [a \in Agents |->
                IF a \in st.reg[name].assignments \cap uninstallAgentPaths
                THEN [st.fs[a] EXCEPT ![name] = Absent]
                ELSE st.fs[a]],
     store |-> st.store,
     reg |-> [st.reg EXCEPT ![name] = NoSkill]]

\* One managed skill: rm (recursive, force) of its path in every assigned
\* agent that has a path, rm of its store directory when asked, and the
\* registry entry deleted.
uninstallSkill(st, name, deleteFiles) ==
    [fs |-> [a \in Agents |->
                IF a \in st.reg[name].assignments \cap uninstallAgentPaths
                THEN [st.fs[a] EXCEPT ![name] = Absent]
                ELSE st.fs[a]],
     store |-> IF deleteFiles THEN [st.store EXCEPT ![name] = Absent] ELSE st.store,
     reg |-> [st.reg EXCEPT ![name] = NoSkill]]

\* The loop of runUninstall; a name the registry does not hold is reported
\* and passed over.
RECURSIVE uninstallLoop(_, _, _, _)
uninstallLoop(st, skills, deleteFiles, i) ==
    IF i > Len(skills) THEN st
    ELSE IF ~st.reg[skills[i]].managed
         THEN uninstallLoop(st, skills, deleteFiles, i + 1)
         ELSE uninstallLoop(uninstallSkill(st, skills[i], deleteFiles),
                            skills, deleteFiles, i + 1)

UninstallCmd ==
    /\ ops < MaxStoreOps
    /\ ops' = ops + 1
    /\ \E skills \in SkillArgs, deleteFiles \in BOOLEAN :
       \E r \in {uninstallLoop([fs |-> agentFs, store |-> storeFs, reg |-> registry],
                               skills, deleteFiles, 1)} :
          /\ agentFs' = r.fs
          /\ storeFs' = r.store
          /\ registry' = r.reg
          /\ last' = [op |-> "uninstall", skills |-> skills, deleteFiles |-> deleteFiles,
                      pre |-> agentFs, preStore |-> storeFs, preReg |-> registry,
                      ok |-> TRUE]
    /\ UNCHANGED <<tui, detected, maxCount, autoSnapshot, snapFs, now, linkFs, edits, snapLog>>

InitUninstall == InitDoctor

NextUninstall == UninstallCmd

SpecUninstall == InitUninstall /\ [][NextUninstall]_vars

----------------------------------------------------------------------------
(* The interactive matrix (runMatrixTUI).  term.on("key") calls the async  *)
(* handler for every key without waiting for the handler of the key before *)
(* it: a handler runs up to its next await, and the handlers in flight go  *)
(* on in whatever order their I/O completes.                               *)

MaxKeys == 3

Keys == {"UP", "DOWN", "LEFT", "RIGHT", " ", "a", "n", "ENTER"}

Max(a, b) == IF a >= b THEN a ELSE b

Min(a, b) == IF a <= b THEN a ELSE b

\* Object.keys(registry.skills)
managedSkills(reg) == SelectSeq(<<"alpha", "Beta">>, LAMBDA s : reg[s].managed)

\* The next agent of the list, from position i on, that assignAll (want =
\* FALSE) or unassignAll (want = TRUE) acts on; 0 when there is none.
RECURSIVE nextAgent(_, _, _, _, _)
nextAgent(mem, skill, agents, i, want) ==
    IF i > Len(agents) THEN 0
    ELSE IF (agents[i] \in mem[skill].assignments) = want THEN i
    ELSE nextAgent(mem, skill, agents, i + 1, want)

\* A handler that has reached registryStore.save.
Saving(h) == [h EXCEPT !.pc = "mkdir"]

\* toggle, assignAll or unassignAll run up to their first await.
startHandler(t, key) ==
    LET skill == t.skills[t.cursorRow + 1]
        agent == t.agents[t.cursorCol + 1]
        h0 == [kind |-> key, skill |-> skill, act |-> "assign", idx |-> 0,
               pc |-> "io", content |-> t.mem]
    IN CASE key = " " ->
              [h0 EXCEPT !.act = IF agent \in t.mem[skill].assignments
                                 THEN "unassign" ELSE "assign",
                         !.idx = t.cursorCol + 1]
         [] key = "a" ->
              LET i == nextAgent(t.mem, skill, t.agents, 1, FALSE)
              IN IF i = 0 THEN Saving(h0) ELSE [h0 EXCEPT !.idx = i]
         [] OTHER ->
              LET i == nextAgent(t.mem, skill, t.agents, 1, TRUE)
              IN IF i = 0 THEN Saving([h0 EXCEPT !.act = "unassign"])
                 ELSE [h0 EXCEPT !.act = "unassign", !.idx = i]

\* Where a handler goes after the I/O on its current agent: the next agent
\* of its loop, or the save.
afterIo(h, mem, agents) ==
    IF h.kind = " " THEN Saving(h)
    ELSE LET i == nextAgent(mem, h.skill, agents, h.idx + 1, h.act = "unassign")
         IN IF i = 0 THEN Saving(h) ELSE [h EXCEPT !.idx = i]

\* One handler resumes after an await.  w is the world: the agents'
\* directories, registry.json and state.registry.
stepHandler(w, h, agents) ==
    LET agent == agents[h.idx]
    IN CASE h.pc = "io" ->
              LET r == IF h.act = "assign"
                       THEN assignSkill(w.fs[agent][h.skill], h.skill)
                       ELSE unassignSkill(w.fs[agent][h.skill])
                  mem == [w.mem EXCEPT ![h.skill].assignments =
                              IF h.act = "assign" THEN @ \cup {agent} ELSE @ \ {agent}]
              IN IF r.ok
                 THEN [w |-> [w EXCEPT !.fs[agent][h.skill] = r.entry, !.mem = mem],
                       done |-> FALSE, h |-> afterIo(h, mem, agents)]
                 ELSE IF h.kind = "a"
                      THEN [w |-> w, done |-> FALSE, h |-> afterIo(h, w.mem, agents)]
                      ELSE [w |-> w, done |-> TRUE, h |-> h]
         [] h.pc = "mkdir" ->
              [w |-> w, done |-> FALSE, h |-> [h EXCEPT !.pc = "write", !.content = w.mem]]
         [] OTHER ->
              [w |-> [w EXCEPT !.reg = h.content], done |-> TRUE, h |-> h]

\* The cursor after a key.
moveCursor(t, key) ==
    CASE key = "UP" -> [t EXCEPT !.cursorRow = Max(0, @ - 1)]
      [] key = "DOWN" -> [t EXCEPT !.cursorRow = Min(Len(t.skills) - 1, @ + 1)]
      [] key = "LEFT" -> [t EXCEPT !.cursorCol = Max(0, @ - 1)]
      [] key = "RIGHT" -> [t EXCEPT !.cursorCol = Min(Len(t.agents) - 1, @ + 1)]
      [] OTHER -> t

\* runMatrixTUI up to grabInput; it leaves when no skill is managed.
TuiStart ==
    /\ ~tui.running
    /\ Len(managedSkills(registry)) > 0
    /\ tui' = [running |-> TRUE, exited |-> FALSE,
               skills |-> managedSkills(registry), agents |-> DetectedOrder,
               mem |-> registry, cursorRow |-> 0, cursorCol |-> 0,
               pending |-> <<>>, keys |-> <<>>, fs0 |-> agentFs, reg0 |-> registry]
    /\ last' = [op |-> "tui-start"]
    /\ UNCHANGED <<agentFs, detected, maxCount, autoSnapshot, snapFs, now, linkFs,
                   storeFs, registry, edits, ops, snapLog>>

\* The key event: the synchronous part of the handler.
TuiKey ==
    /\ tui.running
    /\ ~tui.exited
    /\ Len(tui.keys) < MaxKeys
    /\ \E key \in Keys :
          /\ tui' = [(IF key \in {" ", "a", "n"}
                      THEN [tui EXCEPT !.pending = Append(@, startHandler(tui, key))]
                      ELSE IF key = "ENTER"
                           THEN [tui EXCEPT !.exited = TRUE, !.pending = <<>>]
                           ELSE moveCursor(tui, key))
                     EXCEPT !.keys = Append(@, key)]
          /\ last' = [op |-> "tui-key", key |-> key]
    /\ UNCHANGED <<agentFs, detected, maxCount, autoSnapshot, snapFs, now, linkFs,
                   storeFs, registry, edits, ops, snapLog>>

\* The I/O a handler in flight awaits completes and the handler runs on to
\* its next await.
TuiStep ==
    /\ tui.running
    /\ \E i \in 1..Len(tui.pending) :
       \E r \in {stepHandler([fs |-> agentFs, reg |-> registry, mem |-> tui.mem],
                             tui.pending[i], tui.agents)} :
          /\ agentFs' = r.w.fs
          /\ registry' = r.w.reg
          /\ tui' = [tui EXCEPT
                       !.mem = r.w.mem,
                       !.pending = IF r.done
                                   THEN SubSeq(@, 1, i - 1) \o SubSeq(@, i + 1, Len(@))
                                   ELSE [@ EXCEPT ![i] = r.h]]
          /\ last' = [op |-> "tui-step", kind |-> tui.pending[i].kind]
    /\ UNCHANGED <<detected, maxCount, autoSnapshot, snapFs, now, linkFs,
                   storeFs, edits, ops, snapLog>>

\* An installation in order: both skills in the store, alpha managed and
\* linked where the registry says, Beta managed or not, and possibly a
\* directory of the user's own under cursor.
InitTui ==
    /\ \E A \in {{}, {"claude"}}, ua \in {Absent, Dir([NoFiles EXCEPT !["SKILL.md"] = 1])},
          b \in {NoSkill, [ManagedSkill("claude") EXCEPT !.assignments = {}]} :
          /\ agentFs = [a \in Agents |-> [n \in Skills |->
                           CASE a = "claude" /\ n = "alpha" /\ a \in A -> Link(StorePath(n))
                             [] a = "cursor" /\ n = "alpha" -> ua
                             [] OTHER -> Absent]]
          /\ registry = [alpha |-> [ManagedSkill("claude") EXCEPT !.assignments = A],
                         Beta |-> b]
    /\ detected \in DetectedConfigs
    /\ maxCount = MaxRetention
    /\ autoSnapshot = TRUE
    /\ snapFs = <<>>
    /\ now = 0
    /\ linkFs = <<>>
    /\ storeFs = [s \in Skills |-> Dir([NoFiles EXCEPT !["SKILL.md"] = 1])]
    /\ edits = 0
    /\ ops = 0
    /\ snapLog = <<>>
    /\ tui = NoTui
    /\ last = NoOp

NextTui ==
    \/ TuiStart
    \/ TuiKey
    \/ TuiStep

SpecTui == InitTui /\ [][NextTui]_vars

----------------------------------------------------------------------------
(* The life of an installation: from an empty store and registry, adopt,   *)
(* assign, unassign and uninstall, with the user adding skill directories  *)
(* of their own in between.                                                *)

\* The user makes a skill directory at a free path of an agent.
UserCreatesSkill ==
    /\ edits < MaxEdits
    /\ \E a \in Agents, s \in Skills, e \in {d \in EditEntries : IsSkillDir(d)} :
          /\ agentFs[a][s].kind = "none"
          /\ agentFs' = [agentFs EXCEPT ![a][s] = e]
    /\ edits' = edits + 1
    /\ last' = NoOp
    /\ UNCHANGED <<tui, detected, maxCount, autoSnapshot, snapFs, now, linkFs, storeFs,
                   registry, ops, snapLog>>

InitLifecycle == InitStore

\* A command that ran to its end: it neither threw nor left through
\* process.exit(1).
Completed(l) ==
    \/ l.op = "adopt-none"
    \/ l.op \in {"adopt", "assign", "unassign", "uninstall"} /\ l.ok

\* Only runs that complete are followed.
NextLifecycle ==
    \/ UserCreatesSkill
    \/ AdoptCmd /\ Completed(last')
    \/ AssignCmd /\ Completed(last')
    \/ UnassignCmd /\ Completed(last')
    \/ UninstallCmd /\ Completed(last')

SpecLifecycle == InitLifecycle /\ [][NextLifecycle]_vars

----------------------------------------------------------------------------
(* SkillsStore.assignSkill and unassignSkill with both kinds of assignment, *)
(* on the paths of one agent skills directory.                              *)

MaxAssignCalls == 3

\* assignment.target split at the dots.
AssignTargets == {<<"SKILL", "md">>, <<"LICENSE">>}

Assignments ==
    {[type |-> "directory", target |-> <<>>]}
        \cup {[type |-> "file", target |-> t] : t \in AssignTargets}

\* assignment.target.split(".").pop()
extension(target) == target[Len(target)]

\* join(agentSkillsDir, name) and join(agentSkillsDir, `${name}.${ext}`);
\* ext is "" for the first.
agentEntry(name, ext) ==
    CASE name = "alpha" /\ ext = "" -> "skills/alpha"
      [] name = "alpha" /\ ext = "md" -> "skills/alpha.md"
      [] name = "alpha" /\ ext = "LICENSE" -> "skills/alpha.LICENSE"
      [] name = "Beta" /\ ext = "" -> "skills/Beta"
      [] name = "Beta" /\ ext = "md" -> "skills/Beta.md"
      [] OTHER -> "skills/Beta.LICENSE"

\* join(skillsDir, name) and join(skillsDir, name, assignment.target)
storeEntry(name, target) ==
    CASE name = "alpha" /\ target = <<>> -> "store/alpha"
      [] name = "alpha" /\ target = <<"SKILL", "md">> -> "store/alpha/SKILL.md"
      [] name = "alpha" -> "store/alpha/LICENSE"
      [] name = "Beta" /\ target = <<>> -> "store/Beta"
      [] name = "Beta" /\ target = <<"SKILL", "md">> -> "store/Beta/SKILL.md"
      [] OTHER -> "store/Beta/LICENSE"

\* Every path assignSkill may link for a skill.
skillEntries(name) == {agentEntry(name, e) : e \in {"", "md", "LICENSE"}}

AssignPaths == {LinkDir} \cup UNION {skillEntries(n) : n \in Skills}

assignSkillAt(fs, name, assignment) ==
    IF assignment.type = "directory"
    THEN createSymlink(fs, storeEntry(name, <<>>), agentEntry(name, ""))
    ELSE createSymlink(fs, storeEntry(name, assignment.target),
                       agentEntry(name, extension(assignment.target)))

unassignSkillAt(fs, name) == removeSymlink(fs, agentEntry(name, ""))

AssignSkillOp ==
    /\ ops < MaxAssignCalls
    /\ ops' = ops + 1
    /\ \E name \in Skills, assignment \in Assignments :
       \E r \in {assignSkillAt(linkFs, name, assignment)} :
          /\ linkFs' = r.fs
          /\ last' = [op |-> "assignSkill", name |-> name, assignment |-> assignment,
                      pre |-> linkFs, ok |-> r.ok]
    /\ UNCHANGED <<tui, agentFs, detected, maxCount, autoSnapshot, snapFs, now, storeFs,
                   registry, edits, snapLog>>

UnassignSkillOp ==
    /\ ops < MaxAssignCalls
    /\ ops' = ops + 1
    /\ \E name \in Skills :
       \E r \in {unassignSkillAt(linkFs, name)} :
          /\ linkFs' = r.fs
          /\ last' = [op |-> "unassignSkill", name |-> name, pre |-> linkFs, ok |-> r.ok,
                      before |-> last]
    /\ UNCHANGED <<tui, agentFs, detected, maxCount, autoSnapshot, snapFs, now, storeFs,
                   registry, edits, snapLog>>

\* The agent's skills directory is missing or empty.
InitKinds ==
    /\ agentFs = [a \in Agents |-> EmptyAgentDir]
    /\ detected = [a \in Agents |-> TRUE]
    /\ maxCount = MaxRetention
    /\ autoSnapshot = TRUE
    /\ snapFs = <<>>
    /\ now = 0
    /\ \E d \in {Absent, Dir(NoFiles)} :
          linkFs = [p \in AssignPaths |-> IF p = LinkDir THEN d ELSE Absent]
    /\ storeFs = [s \in Skills |-> Absent]
    /\ registry = <<>>
    /\ edits = 0
    /\ ops = 0
    /\ snapLog = <<>>
    /\ tui = NoTui
    /\ last = NoOp

NextKinds ==
    \/ AssignSkillOp
    \/ UnassignSkillOp

SpecKinds == InitKinds /\ [][NextKinds]_vars

----------------------------------------------------------------------------
(* Install (runInstall with one skill named), next to uninstall *)

MaxInstallRuns == 3

\* The skill found in the source: a directory with SKILL.md.
InstallSources ==
    {Dir(f) : f \in {g \in FileMaps : g["SKILL.md"] # 0 /\ g["ref.md"] \in {0, 1}}}

\* The local directory a linked store entry points to.
LocalPath(name) == <<"local", name>>

\* One turn of the install loop for a selected skill.  existing is the
\* content of SKILL.md read from the store entry (0: there is none).
installSkill(st, name, src, local, update, existing) ==
    LET put(store) == IF local
                      THEN [store EXCEPT ![name] = linkOnto(@, LocalPath(name)).entry]
                      ELSE addSkill(store, name, src)
        source == <<"installed", IF local THEN "local" ELSE "remote">>
    IN  IF hasSkill(st.store, name)
        THEN IF existing = 0
             THEN [st EXCEPT !.ok = FALSE]
             ELSE IF existing = src.files["SKILL.md"] \/ ~update
                  THEN st
                  ELSE LET replaced == put([st.store EXCEPT ![name] = Absent])
                       IN  IF ~st.reg[name].managed
                           THEN [st EXCEPT !.store = replaced, !.ok = FALSE]
                           ELSE [st EXCEPT !.store = replaced, !.reg[name].source = source]
        ELSE [st EXCEPT !.store = put(st.store),
                        !.reg[name] = [managed |-> TRUE, source |-> source,
                                       assignments |-> {}]]

\* simba install <source> --skill <name>; registry.json is saved when the
\* loop ran to its end.  What a linked store entry shows as SKILL.md is the
\* local directory's, a content of its own.
InstallCmd ==
    /\ ops < MaxInstallRuns
    /\ ops' = ops + 1
    /\ \E name \in Skills, src \in InstallSources, local \in BOOLEAN, update \in BOOLEAN :
       \E existing \in (IF storeFs[name].kind = "dir"
                        THEN {storeFs[name].files["SKILL.md"]}
                        ELSE IF storeFs[name].kind = "link" THEN Contents ELSE {0}) :
       \E r \in {installSkill([store |-> storeFs, reg |-> registry, ok |-> TRUE],
                              name, src, local, update, existing)} :
          /\ storeFs' = r.store
          /\ registry' = IF r.ok THEN r.reg ELSE registry
          /\ last' = [op |-> "install", name |-> name, src |-> src, local |-> local,
                      update |-> update, existing |-> existing,
                      preStore |-> storeFs, preReg |-> registry, ok |-> r.ok]
    /\ UNCHANGED <<tui, agentFs, detected, maxCount, autoSnapshot, snapFs, now, linkFs,
                   edits, snapLog>>

InitInstall == InitStore

NextInstall ==
    \/ InstallCmd
    \/ UninstallCmd

SpecInstall == InitInstall /\ [][NextInstall]_vars

----------------------------------------------------------------------------
(* Claims about the symlink primitives *)

\* C10: createSymlink(source, target) called when target exists as a real
\* (non-symlink) file or a real directory fails with an error and leaves
\* target and its contents unchanged.
C10_RealTargetRefused ==
    ( /\ last.op = "createSymlink"
      /\ last.pre[last.target].kind \in {"file", "dir"} )
    => /\ ~last.ok
       /\ linkFs[last.target] = last.pre[last.target]

\* The last two operations were createSymlink calls with the same arguments,
\* with nothing happening in between.
SecondCall ==
    /\ last.op = "createSymlink"
    /\ last.before.op = "createSymlink"
    /\ last.before.source = last.source
    /\ last.before.target = last.target

\* C11: calling createSymlink(S, T) twice in a row with the same arguments
\* leaves the filesystem in the same state as calling it once, and the second
\* call does not fail (it fails only where the first call failed too: on a
\* real directory or a blocked parent, which neither call touches).
C11_CreateSymlinkIdempotent ==
    SecondCall =>
        /\ linkFs = last.pre
        /\ last.before.ok => last.ok

\* A second call after a first one that succeeded and changed the target.
C11_Witness ==
    /\ SecondCall
    /\ last.before.ok
    /\ last.ok
    /\ last.before.pre[last.target] # linkFs[last.target]

\* C12: when target is absent or is a symlink (pointing at source or anywhere
\* else), createSymlink(source, target) succeeds and afterwards target is a
\* symlink whose link target is exactly source; missing parent directories
\* of target are created.  (The parent is missing or a directory: a regular
\* file in the parent's place is not a missing directory.)
C12_CreateSymlinkLinks ==
    ( /\ last.op = "createSymlink"
      /\ last.pre[last.target].kind \in {"none", "link"}
      /\ last.pre[dirname(last.target)].kind # "file" )
    => /\ last.ok
       /\ linkFs[last.target] = Link(last.source)
       /\ linkFs[dirname(last.target)].kind = "dir"

\* A symlink that pointed elsewhere has been replaced.
C12_Witness ==
    /\ last.op = "createSymlink"
    /\ last.pre[last.target].kind = "link"
    /\ last.pre[last.target].target # last.source
    /\ last.ok
    /\ linkFs[last.target] = Link(last.source)

\* C13: removeSymlink(path) never deletes a real (non-symlink) file or
\* directory: any non-symlink path that existed before the call still exists
\* with the same contents after it.
C13_RemoveSymlinkKeepsReal ==
    last.op = "removeSymlink" =>
        \A p \in LinkPaths :
            last.pre[p].kind \in {"file", "dir"} => linkFs[p] = last.pre[p]

----------------------------------------------------------------------------
(* Claims about the central store commands *)

\* The step removes or replaces a real file or directory of an agent's
\* skills directory, and the store does not hold that content afterwards.
Destroys(a, n) ==
    /\ agentFs[a][n].kind \in {"dir", "file"}
    /\ agentFs'[a][n] # agentFs[a][n]
    /\ storeFs'[n] # agentFs[a][n]

\* C9: every command that deletes or overwrites skill content in an agent
\* directory or in the central store (sync, adopt, doctor repair, uninstall,
\* update) creates a snapshot of the content it is about to destroy before
\* its first deletion or overwrite, when autoSnapshot is enabled.  Here: a
\* step of a command (not an edit from outside) that destroys content takes
\* a snapshot.
C9_SnapshotBeforeDestroy ==
    [][ ( /\ edits' = edits
          /\ autoSnapshot
          /\ \E a \in Agents, n \in Skills : Destroys(a, n) )
        => Len(snapLog') > Len(snapLog) ]_vars

\* C14: after runAdopt (not dry-run) completes, every skill directory it
\* discovered in a detected agent is either a symlink to that skill's
\* central-store path or an entry that runDoctor reports as rogue; no agent is
\* left with an unflagged real copy of an adopted skill, including when the
\* same skill name was found in several agents.
C14_AdoptedOrRogue ==
    (last.op = "adopt" /\ last.ok) =>
        \A a \in DetectedAgents, n \in Skills :
            IsSkillDir(last.pre[a][n]) =>
                \/ agentFs[a][n] = Link(StorePath(n))
                \/ [skill |-> n, agent |-> a] \in runDoctor(agentFs, storeFs, registry).rogue

----------------------------------------------------------------------------
(* Claims about doctor *)

\* The class the live entry at the expected path belongs to.
LiveClass(fs, store, n, a) ==
    LET e == fs[a][n]
    IN  CASE e.kind = "none" -> "symlink missing"
          [] e.kind \in {"dir", "file"} -> "rogue"
          [] e.kind = "link" /\ store[e.target[2]].kind = "none" -> "target missing"
          [] e.kind = "link" /\ e.target # StorePath(n) -> "wrong target"
          [] OTHER -> "healthy"

\* What a doctor result says about one pair.
Reported(results, n, a) ==
    {b.reason : b \in {x \in results.broken : x.skill = n /\ x.agent = a}}
        \cup {"rogue" : g \in {x \in results.rogue : x.skill = n /\ x.agent = a}}

AssignedPairs ==
    {<<n, a>> \in Skills \X Agents :
        registry[n].managed /\ a \in registry[n].assignments /\ detected[a]}

\* C15: runDoctor puts every (skill, agent) assignment pair whose agent is
\* detected into exactly one class according to the live state of the
\* expected agent path: healthy, broken 'symlink missing', broken 'target
\* missing', broken 'wrong target', or rogue (a real file or directory, which
\* is never reported as broken).  A healthy pair gets no entry.
C15_DoctorClassifies ==
    last.op = "doctor" =>
        \A pr \in AssignedPairs :
            LET class == LiveClass(last.pre, storeFs, pr[1], pr[2])
            IN  Reported(last.results, pr[1], pr[2]) =
                    IF class = "healthy" THEN {} ELSE {class}

\* One run met a rogue entry, a link to the wrong skill and a link whose
\* target is missing or a missing link.
C15_Witness ==
    /\ last.op = "doctor"
    /\ last.results.rogue # {}
    /\ \E b \in last.results.broken : b.reason = "wrong target"
    /\ \E b \in last.results.broken : b.reason \in {"target missing", "symlink missing"}

\* C16: a skill is listed in runDoctor's healthy result only if every one of
\* its checked (skill, agent) assignment pairs is healthy: a skill that has
\* any broken or rogue entry in the same result is never listed as healthy.
C16_HealthyMeansAllHealthy ==
    last.op = "doctor" =>
        \A n \in last.results.healthy :
            /\ \A b \in last.results.broken : b.skill # n
            /\ \A g \in last.results.rogue : g.skill # n
            /\ \A pr \in AssignedPairs :
                  pr[1] = n => LiveClass(last.pre, storeFs, pr[1], pr[2]) = "healthy"

\* alpha has a healthy pair and a broken or rogue one and is not listed,
\* while Beta is.
C16_Witness ==
    /\ last.op = "doctor"
    /\ "alpha" \notin last.results.healthy
    /\ "Beta" \in last.results.healthy
    /\ \E pr \in AssignedPairs :
          pr[1] = "alpha" /\ LiveClass(last.pre, storeFs, pr[1], pr[2]) = "healthy"
    /\ \E pr \in AssignedPairs : pr[1] = "Beta"

\* The run was confirmed: the prompt was shown (no --fix) and answered yes.
Confirmed == ~last.fix /\ last.shouldFix

\* C17: in the doctor command, a rogue path is removed and replaced by a
\* symlink only after an explicit confirmation was given for that run; in
\* every run where no confirmation prompt was answered yes, each rogue path
\* and its contents are unchanged when the command ends.
C17_RogueNeedsConfirmation ==
    (last.op = "doctor" /\ ~Confirmed) =>
        \A g \in last.results.rogue :
            agentFs[g.agent][g.skill] = last.pre[g.agent][g.skill]

----------------------------------------------------------------------------
(* Claims about assign and unassign *)

\* The agents of the last command's argument that have a path (are detected).
Targets == SeqToSet(last.agents) \cap DetectedAgents

\* C18: unassigning a skill from an agent (SkillsStore.unassignSkill /
\* runUnassign) removes only the symlink in that agent's directory and that
\* agent's assignment in the registry: the store copy of the skill, the links
\* of other agents and the registry entries of other skills are unchanged.
C18_UnassignFrame ==
    last.op = "unassign" =>
        /\ storeFs = last.preStore
        /\ \A a \in Agents, n \in Skills :
              (a \notin Targets \/ n # last.skill) => agentFs[a][n] = last.pre[a][n]
        /\ \A n \in Skills : n # last.skill => registry[n] = last.preReg[n]
        /\ registry[last.skill] =
              [last.preReg[last.skill] EXCEPT
                  !.assignments = IF last.ok THEN @ \ Targets ELSE @]
        /\ last.ok =>
              \A a \in Targets :
                  last.pre[a][last.skill].kind = "link" => agentFs[a][last.skill] = Absent

\* alpha was unassigned from claude, whose link is gone, while cursor keeps
\* its link and its assignment and the store keeps the skill.
C18_Witness ==
    /\ last.op = "unassign"
    /\ last.ok
    /\ last.skill = "alpha"
    /\ Targets = {"claude"}
    /\ last.pre["claude"]["alpha"] = Link(StorePath("alpha"))
    /\ agentFs["claude"]["alpha"] = Absent
    /\ agentFs["cursor"]["alpha"] = Link(StorePath("alpha"))
    /\ last.preReg["alpha"].assignments = {"claude", "cursor"}
    /\ registry["alpha"].assignments = {"cursor"}
    /\ storeFs["alpha"].kind = "dir"

----------------------------------------------------------------------------
(* Further claims about syncUnique and restore *)

\* C19: syncUnique(skill, source) copies only into detected agents that do
\* not already have the skill: an agent that already holds a copy of that
\* skill is neither written to nor included in the returned list, and the
\* returned list is exactly the set of agents copied to.
C19_SyncUniqueSkipsHolders ==
    ( /\ last.op = "syncUnique"
      /\ last.ok
      /\ last.source \in DetectedAgents
      /\ IsSkillDir(last.pre[last.source][last.skill]) ) =>
        \A a \in DetectedAgents \ {last.source} :
            IsSkillDir(last.pre[a][last.skill]) =>
                /\ agentFs[a][last.skill] = last.pre[a][last.skill]
                /\ a \notin SeqToSet(last.ret)

\* The skill names in the manifest of a snapshot.
ManifestNames(id) == SeqToSet(snapFs[id].manifest.skills)

\* C20: restore(id, targetDir) replaces only the entries of targetDir named
\* in the snapshot's manifest: each such entry ends up with exactly the
\* snapshotted content (nothing of the previous entry is merged in), and
\* every other entry of targetDir, and the snapshot store itself, are
\* unchanged.
C20_RestoreReplacesNamedOnly ==
    [][ (last'.op = "restore" /\ ops' = ops + 1 /\ last'.ok) =>
            /\ snapFs' = snapFs
            /\ \A a \in Agents, s \in Skills :
                  agentFs'[a][s] =
                      IF a = last'.target /\ s \in ManifestNames(last'.id)
                      THEN snapFs[last'.id].skills[s]
                      ELSE agentFs[a][s] ]_vars

\* A restore replaced a directory that held a file the snapshot does not
\* have: the file is gone afterwards.
C20_Witness ==
    /\ last.op = "restore"
    /\ last.ok
    /\ \E s \in ManifestNames(last.id), p \in Paths :
          /\ last.pre[last.target][s].kind = "dir"
          /\ last.pre[last.target][s].files[p] # 0
          /\ snapFs[last.id].skills[s].kind = "dir"
          /\ snapFs[last.id].skills[s].files[p] = 0
          /\ agentFs[last.target][s] = snapFs[last.id].skills[s]

----------------------------------------------------------------------------
(* Claims about the snapshot listing *)

\* The position, among the successful createSnapshot calls, of the latest
\* call that wrote the snapshot with this id.
CallIndex(id) ==
    CHOOSE k \in 1..Len(snapLog) :
        /\ snapLog[k].id = id
        /\ \A j \in 1..Len(snapLog) : snapLog[j].id = id => j <= k

\* C21: after any sequence of createSnapshot calls (retention limit at
\* least one), listSnapshots is ordered newest first and getLatestSnapshot
\* returns the manifest of the most recently created snapshot; with no
\* snapshots, getLatestSnapshot returns none and listSnapshots is empty.
C21_ListNewestFirst ==
    \A list \in listSnapshots(snapFs) :
        /\ WithManifest(snapFs) = {} =>
              (list = <<>> /\ getLatestSnapshot(list) = NoManifest)
        /\ (Len(snapLog) > 0 /\ maxCount >= 1) =>
              /\ \A i, j \in 1..Len(list) :
                    i < j => CallIndex(list[i].id) > CallIndex(list[j].id)
              /\ getLatestSnapshot(list) # NoManifest
              /\ getLatestSnapshot(list).id = LatestCall.id
              /\ getLatestSnapshot(list).created = toISOString(LatestCall.created)

----------------------------------------------------------------------------
(* Claims about the rows of the matrix *)

\* The skill names some detected agent lists.
NamesFound == {s \in Skills : \E a \in DetectedAgents : IsSkillDir(agentFs[a][s])}

\* C22: buildMatrix returns exactly one row per distinct skill name found in
\* any detected agent, and the rows are in ascending byte-lexicographic
\* order of skillName.
C22_RowsSortedByteOrder ==
    last.op = "buildMatrix" =>
        /\ Len(last.matrix) = Cardinality(NamesFound)
        /\ {last.matrix[i].skillName : i \in 1..Len(last.matrix)} = NamesFound
        /\ \A i, j \in 1..Len(last.matrix) :
              i < j => ByteRank(last.matrix[i].skillName) < ByteRank(last.matrix[j].skillName)

\* C23: every row returned by buildMatrix has an entry for every detected
\* agent and for no undetected agent; an agent where the skill is absent has
\* {present: false, hash: null}, and an agent where it is present has
\* present true with the tree hash of its current copy.
C23_RowCoversDetectedAgents ==
    last.op = "buildMatrix" =>
        \A i \in 1..Len(last.matrix) :
            LET row == last.matrix[i]
            IN /\ DOMAIN row.agents = {a \in Agents : detected[a]}
               /\ \A a \in DOMAIN row.agents :
                     IF IsSkillDir(agentFs[a][row.skillName])
                     THEN row.agents[a] =
                              [present |-> TRUE,
                               hash |-> hashTree(agentFs[a][row.skillName].files)]
                     ELSE row.agents[a] = [present |-> FALSE, hash |-> NullHash]

\* A matrix was built with a row that has the skill in one detected agent
\* and not in another, while some agent is not detected.
C23_Witness ==
    /\ last.op = "buildMatrix"
    /\ \E a \in Agents : ~detected[a]
    /\ \E i \in 1..Len(last.matrix) :
          \E a, b \in DOMAIN last.matrix[i].agents :
              /\ last.matrix[i].agents[a].present
              /\ ~last.matrix[i].agents[b].present
              /\ agentFs[b][last.matrix[i].skillName].kind = "dir"

----------------------------------------------------------------------------
(* Claims about operations with several targets *)

\* syncUnique has processed every target whose copy, taken alone, succeeds.
C24_SyncUniqueContinues ==
    ( /\ last.op = "syncUnique"
      /\ last.source \in DetectedAgents
      /\ IsSkillDir(last.pre[last.source][last.skill]) ) =>
        \A t \in SeqToSet(syncTargets(last.source)) :
            copySkillOk(last.pre, last.skill, last.source, t) =>
                agentFs[t][last.skill] =
                    Cp(last.pre[last.source][last.skill], last.pre[t][last.skill])

\* runAssign has linked every listed agent whose link, taken alone, succeeds.
C24_AssignContinues ==
    last.op = "assign" =>
        \A t \in SeqToSet(last.agents) \cap DetectedAgents :
            assignSkill(last.pre[t][last.skill], last.skill).ok =>
                /\ agentFs[t][last.skill] = Link(StorePath(last.skill))
                /\ t \in registry[last.skill].assignments

\* C24: when a multi-target operation fails on one target (syncUnique
\* copying to several agents, runAssign linking to several agents), it still
\* processes the remaining targets, each target succeeding or failing on
\* its own.
C24_BestEffortTargets == C24_SyncUniqueContinues /\ C24_AssignContinues

----------------------------------------------------------------------------
(* Claims about identifiers that are not found *)

\* The failure is one the method raises itself and its message holds the
\* identifier.
Names(e, ident) == e.kind = "Error" /\ ident \in e.ids

\* The identifiers of the operation just run that do not exist.
Offending ==
    CASE last.op \in {"listSkills", "getSkillPath"} ->
            {last.agent} \ Agents
      [] last.op = "deleteSkill" ->
            IF last.agent \notin Agents THEN {last.agent}
            ELSE IF last.pre[last.agent][last.skill].kind = "none" THEN {last.skill}
            ELSE {}
      [] last.op = "copySkill" ->
            IF {last.from, last.to} \ Agents # {} THEN {last.from, last.to} \ Agents
            ELSE IF last.pre[last.from][last.skill].kind = "none" THEN {last.skill}
            ELSE {}
      [] last.op = "restore" ->
            IF last.ok THEN {} ELSE {last.id}
      [] OTHER -> {}

\* C25: an unknown agent id, unknown skill name or unknown snapshot id
\* passed to AgentRegistry (listSkills, copySkill, deleteSkill, getSkillPath)
\* or to SnapshotManager.restore produces an explicit failure that names the
\* offending identifier, and leaves agent directories and the snapshot store
\* unchanged.
C25_NotFoundNamed ==
    [][ (ops' = ops + 1 /\ Offending' # {}) =>
            /\ \A ident \in Offending' : Names(last'.error, ident)
            /\ agentFs' = agentFs
            /\ snapFs' = snapFs ]_vars

----------------------------------------------------------------------------
(* Claims about dry runs *)

\* C26: with dryRun set, sync, migrate, adopt, undo and snapshot-restore
\* change nothing: agent directories, the central store, the registry and
\* the snapshot store are identical before and after the run.
C26_DryRunChangesNothing ==
    [][ (ops' = ops + 1 /\ last'.dryRun) =>
            /\ agentFs' = agentFs
            /\ storeFs' = storeFs
            /\ registry' = registry
            /\ snapFs' = snapFs ]_vars

\* A snapshot restore was run with --dry-run for a listed snapshot whose
\* content differs from what the agents hold now.
C26_Witness ==
    /\ last.op = "restore-cmd"
    /\ last.dryRun
    /\ last.found
    /\ restoreEach(agentFs, snapFs, last.id, restoreTargets(last.to), 1) # agentFs
    /\ agentFs = last.pre

----------------------------------------------------------------------------
(* Claims about the tree hasher *)

\* hashTree has been called twice in a row.
TwoHashCalls == last.op = "hashTree" /\ last.before.op = "hashTree"

\* C27: hashTree is deterministic and order-independent: two trees with the
\* same set of (relative path, file bytes) pairs yield the same treeHash and
\* the same ordered file list, whatever order the directory entries are
\* enumerated in; an unmodified tree hashes the same on repeated calls.
C27_HashOrderIndependent ==
    (TwoHashCalls /\ last.tree = last.before.tree) =>
        /\ last.ret.treeHash = last.before.ret.treeHash
        /\ last.ret.files = last.before.ret.files

\* C28: changing one file's bytes, renaming a file, adding a file or
\* deleting a file changes the treeHash (the digests taken as
\* collision-free): two trees with different sets of (relative path, file
\* bytes) pairs never produce the same string that is hashed.
C28_HashSensitive ==
    (TwoHashCalls /\ last.tree # last.before.tree) =>
        last.ret.treeHash # last.before.ret.treeHash

----------------------------------------------------------------------------
(* Claims about uninstall *)

\* C29: after runUninstall of a managed skill, the registry has no entry
\* for it, no link for it remains in any assigned agent directory listed in
\* agentPaths, and its store directory is deleted exactly when deleteFiles
\* is true; uninstalling a name that is not in the registry changes nothing
\* and does not fail.
C29_UninstallRemoves ==
    last.op = "uninstall" =>
        /\ last.ok
        /\ \A name \in SeqToSet(last.skills) :
              IF last.preReg[name].managed
              THEN /\ ~registry[name].managed
                   /\ \A a \in last.preReg[name].assignments \cap uninstallAgentPaths :
                         agentFs[a][name].kind # "link"
                   /\ last.deleteFiles => storeFs[name].kind = "none"
                   /\ ~last.deleteFiles => storeFs[name] = last.preStore[name]
              ELSE /\ registry[name] = last.preReg[name]
                   /\ storeFs[name] = last.preStore[name]
                   /\ \A a \in Agents : agentFs[a][name] = last.pre[a][name]

\* A managed skill with a link in an assigned agent and a directory in the
\* store was uninstalled with its files deleted.
C29_Witness ==
    /\ last.op = "uninstall"
    /\ last.deleteFiles
    /\ \E name \in SeqToSet(last.skills) :
          /\ last.preReg[name].managed
          /\ last.preStore[name].kind = "dir"
          /\ storeFs[name].kind = "none"
          /\ \E a \in last.preReg[name].assignments :
                /\ last.pre[a][name] = Link(StorePath(name))
                /\ agentFs[a][name].kind = "none"

----------------------------------------------------------------------------
(* Claims about migrate *)

\* A migrate run that was not refused and not a dry run.
MigrateRan == last.op \in {"migrate", "migrate-none"} /\ ~last.dryRun

\* C30: runMigrate(from, to) copies exactly the skills of agent `from` whose
\* names are absent in agent `to`; a skill name already present in `to`
\* keeps its content unchanged, and the skills of `from` are never modified.
C30_MigrateCopiesAbsentOnly ==
    MigrateRan =>
        /\ agentFs[last.from] = last.pre[last.from]
        /\ \A s \in Skills :
              IF IsSkillDir(last.pre[last.from][s]) /\ last.pre[last.to][s].kind = "none"
              THEN agentFs[last.to][s] = last.pre[last.from][s]
              ELSE agentFs[last.to][s] = last.pre[last.to][s]

----------------------------------------------------------------------------
(* Claims about the interactive matrix *)

\* A handler run from its first await to its end with nothing in between.
RECURSIVE runHandler(_, _, _)
runHandler(w, h, agents) ==
    LET r == stepHandler(w, h, agents)
    IN IF r.done THEN r.w ELSE runHandler(r.w, r.h, agents)

\* The keys handled one at a time, each handler finished before the next
\* key is looked at.
RECURSIVE oneAtATime(_, _, _, _)
oneAtATime(t, w, keys, i) ==
    IF i > Len(keys) THEN w
    ELSE IF keys[i] \in {" ", "a", "n"}
         THEN LET w2 == runHandler(w, startHandler([t EXCEPT !.mem = w.mem], keys[i]), t.agents)
              IN oneAtATime(t, w2, keys, i + 1)
         ELSE oneAtATime(moveCursor(t, keys[i]), w, keys, i + 1)

Sequential ==
    oneAtATime([tui EXCEPT !.cursorRow = 0, !.cursorCol = 0],
               [fs |-> tui.fs0, reg |-> tui.reg0, mem |-> tui.reg0], tui.keys, 1)

\* C31: whenever the matrix is open, has not been left and no handler is in
\* flight, the agents' directories and registry.json are what handling the
\* same keys one at a time, each to completion, would have left.
C31_KeysActOneAtATime ==
    (tui.running /\ ~tui.exited /\ tui.pending = <<>>)
        => (agentFs = Sequential.fs /\ registry = Sequential.reg)

----------------------------------------------------------------------------
(* Claims about conflict resolution, adoption and the doctor *)

\* C32: when the winner of resolveConflict holds no entry under the skill's
\* name, every loser that held the skill still has its copy after the call.
C32_LosersKeepCopyWithoutWinner ==
    (last.op = "resolveConflict" /\ last.pre[last.winner][last.skill].kind = "none")
        => \A i \in 1..Len(last.losers) :
              IsSkillDir(last.pre[last.losers[i]][last.skill])
                  => agentFs[last.losers[i]][last.skill]
                         = last.pre[last.losers[i]][last.skill]

\* C33: adopt asks onConflict only about names that are not in the store, so
\* a real directory it takes over for a name the store already holds, with
\* content other than the store's, is still there after the run.
C33_AdoptKeepsDifferingDirectory ==
    last.op = "adopt"
        => \A i \in 1..Len(last.toTakeover) :
              LET d == last.toTakeover[i]
                  before == last.pre[d.agentId][d.name]
              IN (before.kind = "dir" /\ storeFs[d.name].kind = "dir"
                    /\ before.files # storeFs[d.name].files)
                     => agentFs[d.agentId][d.name] = before

\* C34: in the life of an installation, after runs that completed, every
\* assignment of the registry has a symlink at the agent's path to a store
\* entry that exists, and the doctor finds nothing broken and nothing rogue.
C34_LifecycleKeepsAssignmentsLinked ==
    /\ \A n \in Skills :
          registry[n].managed =>
              \A a \in registry[n].assignments :
                  /\ agentFs[a][n] = Link(StorePath(n))
                  /\ storeFs[n].kind = "dir"
    /\ LET results == runDoctor(agentFs, storeFs, registry)
       IN results.broken = {} /\ results.rogue = {}

\* A skill adopted from one agent and then assigned to another, next to a
\* directory the user made.
C34_Witness ==
    /\ last.op = "assign"
    /\ last.ok
    /\ \E n \in Skills : registry[n].managed /\ Cardinality(registry[n].assignments) >= 2
    /\ \E a \in Agents, n \in Skills : agentFs[a][n].kind = "dir"

\* C35: after a doctor run that repaired what it reported, every pair it
\* had reported as broken or rogue is healthy.
C35_RepairedPairsHealthy ==
    (last.op = "doctor" /\ (last.fix \/ last.shouldFix))
        => /\ \A b \in last.results.broken :
                 checkPair(agentFs, storeFs, b.skill, b.agent) = "healthy"
           /\ \A g \in last.results.rogue :
                 checkPair(agentFs, storeFs, g.skill, g.agent) = "healthy"

----------------------------------------------------------------------------
(* Claims about the kinds of assignment *)

\* C36: unassignSkill right after assignSkill of the same skill, of either
\* kind, in a directory that held nothing for the skill, leaves no symlink
\* for the skill.
C36_AssignUnassignLeavesNoLink ==
    (/\ last.op = "unassignSkill"
     /\ last.ok
     /\ last.before.op = "assignSkill"
     /\ last.before.ok
     /\ last.before.name = last.name
     /\ \A p \in skillEntries(last.name) : last.before.pre[p].kind = "none")
        => \A p \in skillEntries(last.name) : linkFs[p].kind # "link"

----------------------------------------------------------------------------
(* Claims about sync with a source, listing of linked skills and retention *)

\* C37: with two or more detected agents, after a sync run with --source
\* that completed, every row of the rebuilt matrix is 'synced'.
C37_SyncWithSourceSettles ==
    (/\ last.op = "sync"
     /\ last.ok
     /\ last.source # NoSource
     /\ Cardinality(DetectedAgents) >= 2)
        => LET matrix == buildMatrix(agentFs)
           IN \A i \in 1..Len(matrix) : matrix[i].status = "synced"

\* C38: a skill that a detected agent holds as a symlink to its store
\* directory is listed by listSkills for that agent and is present for it
\* in the matrix, with the tree hash of the store content.
C38_LinkedSkillListed ==
    \A a \in DetectedAgents, n \in Skills :
        (agentFs[a][n] = Link(StorePath(n)) /\ IsSkillDir(storeFs[n]))
            => /\ n \in listSkills(agentFs, a)
               /\ LET matrix == buildMatrix(agentFs)
                  IN \E i \in 1..Len(matrix) :
                        /\ matrix[i].skillName = n
                        /\ matrix[i].agents[a].present
                        /\ matrix[i].agents[a].hash = hashTree(storeFs[n].files)

\* C39: an install of a skill that the store holds and the registry does
\* not, with another SKILL.md than the store's and the update confirmed,
\* completes and leaves the skill in the store and in the registry.
C39_ReinstallAfterUninstall ==
    (/\ last.op = "install"
     /\ hasSkill(last.preStore, last.name)
     /\ ~last.preReg[last.name].managed
     /\ last.existing # 0
     /\ last.existing # last.src.files["SKILL.md"]
     /\ last.update)
        => /\ last.ok
           /\ hasSkill(storeFs, last.name)
           /\ registry[last.name].managed

\* C40: when createSnapshot has returned an id, the snapshot of that id
\* exists and every listing holds it, whatever the retention limit.
C40_CreatedSnapshotListed ==
    (last.op = "createSnapshot" /\ last.ok)
        => /\ last.id \in DOMAIN snapFs
           /\ \A list \in listSnapshots(snapFs) :
                 \E i \in 1..Len(list) : list[i].id = last.id

====
